---- MODULE Spec2Model ----
(***************************************************************************)
(* A model of the section-tree walker of the wiktextract extractors: the   *)
(* closures of parse_language in extractor/en/page.py (merge_base,         *)
(* push_sense, push_pos, push_etym, select_data, parse_part_of_speech,     *)
(* parse_sense_node, process_gloss_contents, process_children), parse_page *)
(* of the same file, and parse_section / parse_page of extractor/ko.       *)
(*                                                                         *)
(* Python dicts are functions whose domain is the set of keys present.     *)
(* Every key has one value type: the keys of ListKeys hold sequences, all  *)
(* others hold scalars (isinstance(v, (list, tuple)) in merge_base).       *)
(* Strings produced by the wikitext parser and by clean_node are tokens:   *)
(* a heading title is [base, num, glued] (the words of the title, its       *)
(* trailing number, 0 for none, and whether the number follows the words   *)
(* without whitespace, as in "Noun2"), a gloss text is [k, q, g, link].    *)
(***************************************************************************)
EXTENDS Integers, Sequences, FiniteSets, TLC

VARIABLES
    pc,           \* position of the driver: "walk", "done", ...
    mode,         \* which program the behaviour runs
    stack,        \* process_children frames, outermost first
    subsection,   \* wxr.wtp.subsection
    base_data, etym_data, pos_data, sense_data,
    pos_datas, etym_datas, page_datas,
    have_etym,
    shared,       \* <<i, k>>: page_datas[i][k] is the list object base_data[k]
    warned,       \* keys for which merge_base logged "conflicting values"
    gta,          \* the default gloss_template_args set of process_gloss_contents
    ret,          \* what parse_language returned
    nhead,        \* headings consumed so far
    log,          \* history: the headings met, in document order
    section_counts, \* wxr.config.section_counts
    aux           \* what a specification keeps besides: see each one

vars == <<pc, mode, stack, subsection, base_data, etym_data, pos_data,
          sense_data, pos_datas, etym_datas, page_datas, have_etym, shared,
          warned, gta, ret, nhead, log, section_counts, aux>>

None == "None"

\* wxr.wtp.subsection when no subsection is started
NoTitle == [base |-> "", num |-> 0, glued |-> FALSE]

-----------------------------------------------------------------------------
(* Python dict and list primitives *)

EmptyDict == [k \in {} |-> <<>>]

Has(d, k) == k \in DOMAIN d

Get(d, k, dflt) == IF k \in DOMAIN d THEN d[k] ELSE dflt

Put(d, k, v) == [x \in (DOMAIN d) \cup {k} |-> IF x = k THEN v ELSE d[x]]

Del(d, k) == [x \in (DOMAIN d) \ {k} |-> d[x]]

InSeq(x, sq) == \E i \in 1..Len(sq) : sq[i] = x

SeqToSet(sq) == {sq[i] : i \in 1..Len(sq)}

data_append(data, key, value) ==
    IF key = "tags" /\ value = ""
    THEN data
    ELSE Put(data, key, Append(Get(data, key, <<>>), value))

data_extend(data, key, values) ==
    IF values = <<>> THEN data
    ELSE Put(data, key, Get(data, key, <<>>) \o values)

\* keys whose values are lists (everything else is a scalar)
ListKeys == {"senses", "tags", "glosses", "raw_glosses", "examples",
             "descendants", "sounds", "forms", "redirects", "synonyms",
             "translations", "etymology_templates", "categories",
             "alt_of", "form_of"}

-----------------------------------------------------------------------------
(* merge_base *)

RECURSIVE SeqFilter(_, _)
SeqFilter(sq, keep) ==
    IF sq = <<>> THEN <<>>
    ELSE IF keep[1]
         THEN <<Head(sq)>> \o SeqFilter(Tail(sq), Tail(keep))
         ELSE SeqFilter(Tail(sq), Tail(keep))

complementary_pop(pron, key) == IF Has(pron, key) THEN Del(pron, key) ELSE pron

\* the keys of base for which data already holds another scalar value
MergeConflicts(data, base) ==
    {k \in DOMAIN base : /\ k \in DOMAIN data
                         /\ data[k] # base[k]
                         /\ k \notin ListKeys}

\* fault injection: a conflicting scalar of base overwrites that of data
MergeKeys_overwrite(data, base) ==
    [k \in (DOMAIN data) \cup (DOMAIN base) |->
        IF k \notin DOMAIN base THEN data[k]
        ELSE IF k \notin DOMAIN data THEN base[k]
        ELSE IF data[k] = base[k] THEN data[k]
        ELSE IF k \in ListKeys THEN data[k] \o base[k]
        ELSE base[k]]

MergeKeys(data, base) ==
    [k \in (DOMAIN data) \cup (DOMAIN base) |->
        IF k \notin DOMAIN base THEN data[k]
        ELSE IF k \notin DOMAIN data THEN base[k]
        ELSE IF data[k] = base[k] THEN data[k]
        ELSE IF k \in ListKeys THEN data[k] \o base[k]
        ELSE data[k]]

FilterSoundsByForm(data) ==
    IF Has(data, "sounds") /\ Has(data, "word")
    THEN LET accepted == {data["word"]} \cup
                         {f["form"] : f \in SeqToSet(Get(data, "forms", <<>>))}
             snd == data["sounds"]
             keep == [i \in 1..Len(snd) |->
                         ~Has(snd[i], "form") \/ snd[i]["form"] \in accepted]
             kept == SeqFilter(snd, keep)
         IN Put(data, "sounds",
                [i \in 1..Len(kept) |-> complementary_pop(kept[i], "pos")])
    ELSE data

FilterSoundsByPos(data) ==
    IF Has(data, "sounds") /\ Has(data, "pos")
    THEN LET snd == data["sounds"]
             keep == [i \in 1..Len(snd) |->
                         ~Has(snd[i], "pos") \/ snd[i]["pos"] = data["pos"]]
         IN Put(data, "sounds", SeqFilter(snd, keep))
    ELSE data

merge_base(data, base) ==
    FilterSoundsByPos(FilterSoundsByForm(MergeKeys(data, base)))

-----------------------------------------------------------------------------
(* The state of one parse_language call, as a record, and the closures that
   change it.  Each closure maps a state record to the state it leaves. *)

S == [sense_data |-> sense_data, pos_data |-> pos_data,
      etym_data |-> etym_data, base_data |-> base_data,
      pos_datas |-> pos_datas, etym_datas |-> etym_datas,
      page_datas |-> page_datas, have_etym |-> have_etym,
      subsection |-> subsection, shared |-> shared, warned |-> warned,
      gta |-> gta]

Commit(s) ==
    /\ sense_data' = s.sense_data
    /\ pos_data' = s.pos_data
    /\ etym_data' = s.etym_data
    /\ base_data' = s.base_data
    /\ pos_datas' = s.pos_datas
    /\ etym_datas' = s.etym_datas
    /\ page_datas' = s.page_datas
    /\ have_etym' = s.have_etym
    /\ subsection' = s.subsection
    /\ shared' = s.shared
    /\ warned' = s.warned
    /\ gta' = s.gta

\* form_descriptions.parse_alt_or_inflection_of on a text [k, q, g, link]
\* (see the gloss handler below): "Alternative form of W." (k = "altof")
\* gives the tag alt-of and "inflection of W." (k = "formof") the tag
\* form-of, each with the target W; any other text gives None (ok = FALSE).
\* The final period of the target is kept only when the target with its
\* period is one of the template arguments or link texts collected.
parse_alt_or_inflection_of(tx, gloss_template_args) ==
    IF tx.k \in {"altof", "formof"} /\ tx.g # 0
    THEN [ok |-> TRUE,
          tags |-> IF tx.k = "altof" THEN <<"alt-of">> ELSE <<"form-of">>,
          dts |-> <<[word |-> tx.g, period |-> tx.g \in gloss_template_args]>>]
    ELSE [ok |-> FALSE, tags |-> <<>>, dts |-> <<>>]

\* lines 803-819: a participle or infinitive sense that names no other word
\* takes the word its etymology text is a form of
EtymologyFormOf(sd, ed) ==
    LET tags == Get(sd, "tags", <<>>)
    IN IF /\ InSeq("participle", tags) \/ InSeq("infinitive", tags)
          /\ ~Has(sd, "alt_of")
          /\ ~Has(sd, "form_of")
          /\ Has(ed, "etymology_text")
       THEN LET r == parse_alt_or_inflection_of(ed["etymology_text"].text, {})
            IN IF ~r.ok THEN sd
               ELSE IF InSeq("form-of", r.tags)
               THEN data_extend(data_extend(sd, "form_of", r.dts),
                                "tags", r.tags)
               ELSE IF InSeq("alt-of", r.tags)
               THEN data_extend(data_extend(sd, "alt_of", r.dts),
                                "tags", r.tags)
               ELSE sd
       ELSE sd

PushSenseFires(sd) ==
    \/ Get(sd, "glosses", <<>>) # <<>>
    \/ InSeq("translation-hub", Get(sd, "tags", <<>>))
    \/ InSeq("no-gloss", Get(sd, "tags", <<>>))

\* fault injection: push_sense that does not tag a sense without glosses
MarkNoGloss_skipped(sd) == sd

MarkNoGloss(sd) ==
    IF Get(sd, "glosses", <<>>) = <<>> /\ ~InSeq("no-gloss", Get(sd, "tags", <<>>))
    THEN data_append(sd, "tags", "no-gloss")
    ELSE sd

\* the value push_sense returns
push_sense_ret(s) == PushSenseFires(s.sense_data)

push_sense(s) ==
    IF ~PushSenseFires(s.sense_data)
    THEN s
    ELSE [s EXCEPT !.pos_datas =
                       Append(@, MarkNoGloss(EtymologyFormOf(s.sense_data,
                                                             s.etym_data))),
                   !.sense_data = EmptyDict]

\* fault injection: push_pos that does not test wxr.wtp.subsection
AppendPosData_always(s1) ==
    [s1 EXCEPT !.etym_datas =
                   Append(@, merge_base([senses |-> s1.pos_datas],
                                        s1.pos_data)),
               !.warned = @ \cup
                   MergeConflicts([senses |-> s1.pos_datas], s1.pos_data)]

\* lines 831-837, s1 the state after the push_sense() of line 830: the entry
\* of the section joins etym_datas
AppendPosData(s1) ==
    IF s1.subsection # NoTitle
    THEN [s1 EXCEPT !.etym_datas =
                        Append(@, merge_base([senses |-> s1.pos_datas],
                                             s1.pos_data)),
                    !.warned = @ \cup
                        MergeConflicts([senses |-> s1.pos_datas],
                                       s1.pos_data)]
    ELSE s1

\* fault injection: push_pos that does not start a new sense list
push_pos_keeps_senses(s) ==
    [AppendPosData(push_sense(s)) EXCEPT !.pos_data = EmptyDict,
                                         !.subsection = NoTitle]

push_pos(s) ==
    [AppendPosData(push_sense(s)) EXCEPT !.pos_data = EmptyDict,
                                         !.pos_datas = <<>>,
                                         !.subsection = NoTitle]

MergeAll(datas, base) == [i \in 1..Len(datas) |-> merge_base(datas[i], base)]

ConflictsAll(datas, base) ==
    UNION {MergeConflicts(datas[i], base) : i \in 1..Len(datas)}

\* lines 847-851, s1 the state after the push_pos() of line 846: the entries
\* of the etymology join page_datas
AppendEtymDatas(s1) ==
    [s1 EXCEPT !.page_datas = @ \o MergeAll(s1.etym_datas, s1.etym_data),
               !.warned = @ \cup ConflictsAll(s1.etym_datas, s1.etym_data)]

\* fault injection: push_etym that does not empty the pending list
push_etym_keeps_pending(s) ==
    [AppendEtymDatas(push_pos([s EXCEPT !.have_etym = TRUE]))
        EXCEPT !.etym_data = EmptyDict]

\* fault injection: push_etym that moves the pending entries to the page
\* before the open part of speech is flushed
push_etym_before_pos(s) ==
    [push_pos(AppendEtymDatas([s EXCEPT !.have_etym = TRUE]))
        EXCEPT !.etym_data = EmptyDict]

push_etym(s) ==
    [AppendEtymDatas(push_pos([s EXCEPT !.have_etym = TRUE]))
        EXCEPT !.etym_data = EmptyDict,
               !.etym_datas = <<>>]

-----------------------------------------------------------------------------
(* The gloss handler.

   A gloss text is the record [k, q, g, link]:
     k     "plain", "hub" (the text "(This entry is a translation hub.)"),
           "altof" (a text "Alternative form of W." whose target W. ends in
           a period) or "formof" (a text "inflection of W.")
     q     the leading parenthesised qualifier, "" when there is none
     g     the identity of the text after the qualifier, 0 when it is empty
     link  the identity of a link text in the contents, 0 when there is none
   clean_node returns the empty string for a text with no qualifier and no
   gloss.  A list item is [text, subs, ex]: its own contents, the items of
   its sublist of sub-glosses, and the example texts of its "#:" sublist.
   Every gloss is one line (re.split yields one subgloss). *)

IsEmptyText(tx) == tx.k = "plain" /\ tx.q = "" /\ tx.g = 0

\* form_descriptions.parse_sense_qualifier: the qualifier becomes a tag
parse_sense_qualifier(q, data) == data_append(data, "tags", q)

extract_link_texts(tx, gloss_template_args) ==
    IF tx.link # 0 THEN gloss_template_args \cup {tx.link}
    ELSE gloss_template_args

\* lines 1662-1669: copy the data for all senses to this sense
RECURSIVE CopyBase(_, _, _)
CopyBase(sd, sb, keys) ==
    IF keys = {} THEN sd
    ELSE LET k == CHOOSE x \in keys : TRUE
             sd1 == IF k \in ListKeys
                    THEN (IF k # "tags" THEN data_extend(sd, k, sb[k]) ELSE sd)
                    ELSE Put(sd, k, sb[k])
         IN CopyBase(sd1, sb, keys \ {k})

\* lines 1710-1719: copy the tags of sense_base that sense_tags lacks;
\* sense_tags is the list object of sense_data when it has one (so it sees
\* the tags appended meanwhile) and the empty tuple otherwise
RECURSIVE CopyTags(_, _, _)
CopyTags(sd, base_tags, live) ==
    IF base_tags = <<>> THEN sd
    ELSE LET tag == Head(base_tags)
             seen == live /\ InSeq(tag, Get(sd, "tags", <<>>))
         IN CopyTags(IF seen THEN sd ELSE data_append(sd, "tags", tag),
                     Tail(base_tags), live)

\* lines 1637-1786, for the one subgloss of the text
CreateSense(sd0, tx, sb, examples, args) ==
    LET sd1 == IF examples # <<>> THEN data_extend(sd0, "examples", examples)
               ELSE sd0
        sd2 == CopyBase(sd1, sb, DOMAIN sb)
        sd3 == IF tx.q # "" THEN parse_sense_qualifier(tx.q, sd2) ELSE sd2
        sd4 == CopyTags(sd3, Get(sb, "tags", <<>>), Has(sd3, "tags"))
        sd5 == IF tx.g = 0 THEN data_append(sd4, "tags", "empty-gloss")
               ELSE IF ~InSeq(tx.g, Get(sd4, "glosses", <<>>))
                    THEN data_append(sd4, "glosses", tx.g)
                    ELSE sd4
        parsed == parse_alt_or_inflection_of(tx, args)
    IN IF ~parsed.ok THEN sd5
       ELSE IF InSeq("alt-of", parsed.tags)
       THEN data_extend(data_extend(sd5, "tags", parsed.tags),
                        "alt_of", parsed.dts)
       ELSE data_extend(data_extend(sd5, "tags", parsed.tags),
                        "form_of", parsed.dts)

\* lines 1788-1791
FillEmptySense(sd, sb) ==
    IF DOMAIN sd = {}
    THEN LET sb1 == IF Get(sb, "tags", <<>>) = <<>> THEN Del(sb, "tags") ELSE sb
         IN [k \in DOMAIN sb1 |-> sb1[k]]
    ELSE sd

\* lines 1551-1570: what the contents add to sense_base
BaseOfText(sb, tx) ==
    LET sb1 == IF ~InSeq(tx, Get(sb, "raw_glosses", <<>>))
               THEN data_append(sb, "raw_glosses", tx)
               ELSE sb
        sb2 == IF tx.q # "" THEN parse_sense_qualifier(tx.q, sb1) ELSE sb1
    IN IF tx.g # 0 THEN data_append(sb2, "glosses", tx.g) ELSE sb2

\* lines 1788-1796: the sense is pushed; added1 tells what was added before
PushGloss(s3, added1, sb1) ==
    [s |-> push_sense(s3), added |-> added1 \/ push_sense_ret(s3), sb |-> sb1]

\* lines 1626-1791, s1 the state after the push_sense() of line 1626
GlossSense(s1, added1, tx, sb1, examples, args) ==
    PushGloss([s1 EXCEPT !.sense_data =
                  FillEmptySense(CreateSense(@, tx, sb1, examples, args),
                                 sb1)],
              added1, sb1)

\* fault injection: the test of line 1600 inverted, so that an outer text
\* without examples gets a sense of its own after its sub-items
AfterSubEntries_inverted(sub, tx, sb1, examples, args) ==
    IF sub.added /\ examples # <<>>
    THEN [s |-> sub.s, added |-> TRUE, sb |-> sb1]
    ELSE GlossSense(push_sense(sub.s), sub.added \/ push_sense_ret(sub.s),
                    tx, sb1, examples, args)

\* fault injection: the level is skipped whenever a sub-item pushed a sense,
\* examples or not
AfterSubEntries_skips(sub, tx, sb1, examples, args) ==
    IF sub.added
    THEN [s |-> sub.s, added |-> TRUE, sb |-> sb1]
    ELSE GlossSense(push_sense(sub.s), sub.added \/ push_sense_ret(sub.s),
                    tx, sb1, examples, args)

\* lines 1591-1626, sub the outcome of the recursive calls
AfterSubEntries(sub, tx, sb1, examples, args) ==
    IF sub.added /\ examples = <<>>
    THEN [s |-> sub.s, added |-> TRUE, sb |-> sb1]
    ELSE GlossSense(push_sense(sub.s), sub.added \/ push_sense_ret(sub.s),
                    tx, sb1, examples, args)

\* lines 1526-1528: the translation hub
PushHub(sH, sb) ==
    [s |-> push_sense(sH), added |-> push_sense_ret(sH), sb |-> sb]

\* the template arguments and link texts the call works with
LinkArgs(s, tx, args0, useDefault) ==
    extract_link_texts(tx, IF useDefault THEN s.gta ELSE args0)

RECURSIVE parse_sense_node(_, _, _)
RECURSIVE process_gloss_contents(_, _, _, _, _, _, _)
RECURSIVE SubEntries(_, _, _, _)
RECURSIVE NextSubEntry(_, _, _, _)
RECURSIVE GlossContents(_, _, _, _, _, _)
RECURSIVE RaisedChild(_, _)

\* lines 1574-1589: the recursive calls, each on a deep copy of sense_base
SubEntries(s, items, sb, added) ==
    IF items = <<>> THEN [s |-> s, added |-> added]
    ELSE NextSubEntry(parse_sense_node(s, Head(items), sb), Tail(items),
                      sb, added)

NextSubEntry(r, items, sb, added) ==
    SubEntries(r.s, items, sb, added \/ r.added)

\* lines 1504-1796, sA the state with the arguments collected
GlossContents(sA, tx, sb, subentries, examples, args) ==
    IF IsEmptyText(tx) THEN [s |-> sA, added |-> FALSE, sb |-> sb]
    ELSE IF tx.k = "hub"
    THEN PushHub([sA EXCEPT !.sense_data =
                      data_append(@, "tags", "translation-hub")], sb)
    ELSE AfterSubEntries(SubEntries(sA, subentries, BaseOfText(sb, tx), FALSE),
                         tx, BaseOfText(sb, tx), examples, args)

\* returns [s, added, sb]: the state left, the value returned, and sense_base
\* as the call left it (the caller's object is changed in place).  useDefault
\* tells that gloss_template_args is the default argument (s.gta).
process_gloss_contents(s, tx, sb, subentries, examples, args0, useDefault) ==
    GlossContents(IF useDefault
                  THEN [s EXCEPT !.gta = LinkArgs(s, tx, args0, useDefault)]
                  ELSE s,
                  tx, sb, subentries, examples,
                  LinkArgs(s, tx, args0, useDefault))

CroppedNode(item) == [item EXCEPT !.subs = <<>>]

\* fault injection: parse_sense_node without the block of lines 1357-1385
parse_sense_node_plain(s, item, sense_base) ==
    process_gloss_contents(s, item.text, sense_base, item.subs,
                           item.ex, {}, FALSE)

\* lines 1382-1385: what both calls added
BothAdded(added1, r2) ==
    [s |-> r2.s, added |-> added1 \/ r2.added, sb |-> r2.sb]

\* lines 1366-1385, r1 the outcome of the call on the cropped node: the
\* nested item is parsed at the level of its parent
RaisedChild(r1, item) ==
    BothAdded(r1.added,
              parse_sense_node([r1.s EXCEPT !.sense_data = EmptyDict],
                               item.subs[1], r1.sb))

parse_sense_node(s, item, sense_base) ==
    IF Len(item.subs) = 1
    THEN \* one sublist with one element: raise it to the level of its parent
         RaisedChild(parse_sense_node(s, CroppedNode(item), sense_base), item)
    ELSE process_gloss_contents(s, item.text, sense_base, item.subs,
                                item.ex, {}, FALSE)

-----------------------------------------------------------------------------
(* parse_part_of_speech.

   The children of a part-of-speech heading are the record
   [kind, htags, text, items]:
     kind   "none" (the heading has no children at all), "text" (children but
            no list: process_gloss_without_list) or "lists"
     htags  the tags parse_word_head derives from the head line
     text   the gloss text outside any list (kind "text")
     items  the items of the gloss list (kind "lists")
   There is one head line per section (pre and lists have one pair). *)

RECURSIVE SenseNodes(_, _, _)
SenseNodes(s, items, header_tags) ==
    IF items = <<>> THEN s
    ELSE LET common_data == [tags |-> header_tags]
         IN SenseNodes(parse_sense_node(s, Head(items), common_data).s,
                       Tail(items), header_tags)

process_gloss_without_list(s, sec, header_tags) ==
    process_gloss_contents(s, sec.text, [tags |-> header_tags],
                           <<>>, <<>>, {}, TRUE).s

\* lines 1191-1197: if there are no senses extracted, add a dummy sense
AddDummySense(s1, header_tags) ==
    IF s1.pos_datas = <<>>
    THEN push_sense([s1 EXCEPT !.sense_data =
             data_append(data_extend(@, "tags", header_tags),
                         "tags", "no-gloss")])
    ELSE s1

DummySense(s, header_tags) == AddDummySense(push_sense(s), header_tags)

parse_part_of_speech(s, sec, pos) ==
    LET s0 == [s EXCEPT !.pos_data = Put(@, "pos", pos)]
    IN IF sec.kind = "none" THEN s0
       ELSE IF sec.kind = "text"
       THEN DummySense(process_gloss_without_list(s0, sec, sec.htags), sec.htags)
       ELSE DummySense(SenseNodes(s0, sec.items, sec.htags), sec.htags)

-----------------------------------------------------------------------------
(* The section tables of wxr.config (POS_SUBTITLES, LINKAGE_SUBTITLES,
   OTHER_SUBTITLES), keyed by the lower-case title. *)

POS_SUBTITLES ==
    [noun |-> [pos |-> "noun", tags |-> <<>>],
     verb |-> [pos |-> "verb", tags |-> <<>>],
     abbreviation |-> [pos |-> "abbrev", tags |-> <<"abbreviation">>]]

LINKAGE_SUBTITLES == [synonyms |-> "synonyms"]

OtherPronunciation == {"pronunciation"}
OtherEtymology == {"etymology"}
OtherDescendants == "descendants"
OtherTranslations == "translations"
OtherIgnored == {"references"}
OtherInflection == {"declension"}
OtherCompounds == "compounds"

\* a title with no trailing number equals the name
TitleIs(t, name) == t.base = name /\ t.num = 0

\* lines 2971-2974: the trailing numbers that t.split() sets apart are
\* stripped (a number glued to the words is part of the last word)
\* fault injection: no number is stripped
t_no_number_kept(t) == t

t_no_number(t) == IF t.glued THEN t ELSE [t EXCEPT !.num = 0]

\* the title ends in whitespace and a number (re.search(r"\s(\d+)$", t),
\* t.startswith(title + " "))
\* fault injection: a number glued to the words counts as a trailing number
Numbered_glued(t) == t.num # 0

Numbered(t) == t.num # 0 /\ ~t.glued

\* the section kind process_children gives the lower-case title t
\* (the order of the if/elif chain of lines 2921-3004)
\* fault injection: the linkage table is looked up before the
\* part-of-speech table
ClassifyWith_linkage_first(t, pos_titles, linkage_titles) ==
    IF t.base \in OtherPronunciation THEN "pronunciation"
    ELSE IF t.base \in OtherEtymology THEN "etymology"
    ELSE IF TitleIs(t, OtherDescendants) THEN "descendants"
    ELSE IF TitleIs(t, OtherTranslations) THEN "translations"
    ELSE IF t.num = 0 /\ t.base \in OtherIgnored THEN "ignored"
    ELSE IF t.num = 0 /\ t.base \in OtherInflection THEN "inflection"
    ELSE LET u == t_no_number(t)
         IN IF u.num = 0 /\ u.base \in linkage_titles THEN "linkage"
            ELSE IF u.num = 0 /\ u.base \in pos_titles THEN "pos"
            ELSE IF TitleIs(u, OtherCompounds) THEN "compounds"
            ELSE "unknown"

\* the if/elif chain of lines 2921-3004 under a configuration whose
\* POS_SUBTITLES has the keys pos_titles and whose LINKAGE_SUBTITLES has the
\* keys linkage_titles
ClassifyWith(t, pos_titles, linkage_titles) ==
    IF t.base \in OtherPronunciation THEN "pronunciation"
    ELSE IF t.base \in OtherEtymology THEN "etymology"
    ELSE IF TitleIs(t, OtherDescendants) THEN "descendants"
    ELSE IF TitleIs(t, OtherTranslations) THEN "translations"
    ELSE IF t.num = 0 /\ t.base \in OtherIgnored THEN "ignored"
    ELSE IF t.num = 0 /\ t.base \in OtherInflection THEN "inflection"
    ELSE LET u == t_no_number(t)
         IN IF u.num = 0 /\ u.base \in pos_titles THEN "pos"
            ELSE IF u.num = 0 /\ u.base \in linkage_titles THEN "linkage"
            ELSE IF TitleIs(u, OtherCompounds) THEN "compounds"
            ELSE "unknown"

Classify(t) ==
    ClassifyWith(t, DOMAIN POS_SUBTITLES, DOMAIN LINKAGE_SUBTITLES)

-----------------------------------------------------------------------------
(* process_children.  A frame of the recursion is
   [t, pos, redirects, level, empty]: the title pushed on stack, the pos
   argument, redirect_list, the level of the heading whose children the call
   walks, and whether that heading has no children at all. *)

\* the language name parse_language pushes on stack before the walk
Language == [base |-> "LANG", num |-> 0, glued |-> FALSE]

\* fault injection: the etymology scope is selected whenever an etymology was
\* entered
select_data_have_etym(s, frames) ==
    IF s.subsection # NoTitle THEN "pos_data"
    ELSE IF s.have_etym THEN "etym_data"
    ELSE "base_data"

select_data(s, frames) ==
    IF s.subsection # NoTitle THEN "pos_data"
    ELSE IF frames[Len(frames)].t = Language THEN "base_data"
    ELSE "etym_data"

\* an in-place change of a list object of base_data is seen by every entry
\* that holds the same object
ExtendShared(datas, sh, key, values) ==
    [i \in 1..Len(datas) |->
        IF <<i, key>> \in sh
        THEN Put(datas[i], key, datas[i][key] \o values)
        ELSE datas[i]]

\* a handler appends values to the list data[key] of the selected scope
\* (list.extend / list.append when the key exists, a new list otherwise)
\* fault injection: the values go to base_data whatever scope was selected
WriteList_to_base(s, which, key, values) ==
    [s EXCEPT !.base_data = Put(@, key, Get(@, key, <<>>) \o values)]

WriteList(s, which, key, values) ==
    LET s1 == [s EXCEPT ![which] = Put(@, key, Get(@, key, <<>>) \o values)]
    IN IF which = "base_data" /\ Has(s.base_data, key)
       THEN [s1 EXCEPT !.page_datas = ExtendShared(@, s.shared, key, values)]
       ELSE s1

parse_descendants(s, which, descendants) ==
    WriteList(s, which, "descendants", descendants)

parse_linkage(s, which, field, item) == WriteList(s, which, field, <<item>>)

parse_translations(s, which, item) ==
    WriteList(s, which, "translations", <<item>>)

\* the text of the h-th heading's section: id tells the texts of different
\* sections apart
parse_etymology(s, h, sec) ==
    [s EXCEPT !.etym_data =
        Put(Put(@, "etymology_text", [id |-> h, text |-> sec.text]),
            "etymology_templates", <<>>)]

\* lines 2994-2996
ExtendPosTags(s, tags) ==
    [s EXCEPT !.pos_datas =
        [i \in 1..Len(@) |-> data_extend(@[i], "tags", tags)]]

\* lines 3015-3018: the end of one process_children call
EndChildren(s, frame) ==
    IF frame.redirects # <<>>
    THEN LET new_page_data == Put(s.base_data, "redirects", frame.redirects)
             i == Len(s.page_datas) + 1
         IN [s EXCEPT !.page_datas = Append(@, new_page_data),
                      !.shared = @ \cup
                          {<<i, k>> : k \in (DOMAIN s.base_data) \cap ListKeys}]
    ELSE s

\* the calls that return before a heading of this level is met
RECURSIVE Unwind(_, _, _)
Unwind(s, frames, level) ==
    IF Len(frames) > 1 /\ frames[Len(frames)].level >= level
    THEN Unwind(EndChildren(s, frames[Len(frames)]),
                SubSeq(frames, 1, Len(frames) - 1), level)
    ELSE [s |-> s, frames |-> frames]

\* fault injection: a title no branch handles closes the part of speech
NoHandler_flushes(s, pos) == [s |-> push_pos(s), pos |-> pos]

\* lines 2965-2966 and 2970-3004: an ignored section, or a title no test
\* accepts (the chain has no final else): nothing is stored and no message is
\* logged
NoHandler(s, pos) == [s |-> s, pos |-> pos]

\* lines 2914-3004: one heading node; h is the ordinal of the heading and sec
\* its children.  Returns [s, pos]: the state and the pos passed down.
HandleHeading(s, frames, t, sec, h) ==
    LET kind == Classify(t)
        pos == frames[Len(frames)].pos
    IN
    IF kind = "pronunciation"
    THEN [s |-> IF Numbered(t)
                THEN [push_etym(s) EXCEPT !.subsection = NoTitle]
                ELSE s,
          pos |-> pos]
    ELSE IF kind = "etymology"
    THEN LET s1 == [push_etym(s) EXCEPT !.subsection = NoTitle]
             s2 == IF Numbered(t)
                   THEN [s1 EXCEPT !.etym_data =
                            Put(@, "etymology_number", t.num)]
                   ELSE s1
         IN [s |-> parse_etymology(s2, h, sec), pos |-> pos]
    ELSE IF kind = "descendants"
    THEN [s |-> parse_descendants(s, select_data(s, frames), <<h>>),
          pos |-> pos]
    ELSE IF kind = "translations"
    THEN [s |-> parse_translations(s, select_data(s, frames), h), pos |-> pos]
    ELSE IF kind = "pos"
    THEN LET dt == POS_SUBTITLES[t.base]
             s1 == [push_pos(s) EXCEPT !.subsection = t]
             s2 == parse_part_of_speech(s1, sec, dt.pos)
         IN [s |-> ExtendPosTags(s2, dt.tags), pos |-> dt.pos]
    ELSE IF kind = "linkage"
    THEN [s |-> parse_linkage(s, select_data(s, frames),
                              LINKAGE_SUBTITLES[t.base], h),
          pos |-> pos]
    ELSE IF kind = "compounds"
    THEN [s |-> parse_linkage(s, select_data(s, frames), "derived", h),
          pos |-> pos]
    ELSE NoHandler(s, pos)

\* lines 3268-3291: the end of parse_language
CopyTagsToSenses(data) ==
    IF ~Has(data, "senses") THEN data
    ELSE LET tags == Get(data, "tags", <<>>)
             d1 == Del(data, "tags")
         IN Put(d1, "senses",
                [i \in 1..Len(d1["senses"]) |->
                    data_extend(d1["senses"][i], "tags", tags)])

\* lines 3274-3291 for every entry of page_datas
CopyAllTags(s1) ==
    [i \in 1..Len(s1.page_datas) |->
        CopyTagsToSenses(merge_base(s1.page_datas[i], s1.base_data))]

\* s1 the state after the push_etym() of line 3272
Returned(s1, out) ==
    [s |-> [s1 EXCEPT !.page_datas = out,
                      !.warned = @ \cup
                          ConflictsAll(s1.page_datas, s1.base_data)],
     ret |-> out]

MergedWithBase(s1) == Returned(s1, CopyAllTags(s1))

Finalize(s) == MergedWithBase(push_etym(s))

-----------------------------------------------------------------------------
(* Inputs: pages as sequences of headings, templates and gloss lists *)

MaxHeadings == 3        \* headings of a page of Spec
MaxRedirects == 1       \* zh-see templates of a page
LifoHeadings == 6       \* headings of a page of SpecLifo

\* the lengths of the gloss lists of SpecLifo
GlossCounts == {1, 2}

\* the identity of the j-th gloss text under the h-th heading
GlossId(h, j) == h * 10 + j

PlainText(g) == [k |-> "plain", q |-> "", g |-> g, link |-> 0]

EmptyText == PlainText(0)

PlainItem(g) == [text |-> PlainText(g), subs |-> <<>>, ex |-> <<>>]

NoSec == [kind |-> "none", htags |-> <<>>, text |-> EmptyText, items |-> <<>>]

\* children (sub-headings, say) but neither a head line, a gloss nor a list
BareSec == [kind |-> "text", htags |-> <<>>, text |-> EmptyText, items |-> <<>>]

\* a gloss list of n plain items under heading h
FlatSec(h, n) ==
    [kind |-> "lists", htags |-> <<>>, text |-> EmptyText,
     items |-> [j \in 1..n |-> PlainItem(GlossId(h, j))]]

Title(base, num) == [base |-> base, num |-> num, glued |-> FALSE]

\* a title whose number follows its words without whitespace ("Noun2")
GluedTitle(base, num) == [base |-> base, num |-> num, glued |-> TRUE]

\* the level fix_subtitle_hierarchy gives a heading before the page is parsed
\* (lines 3383-3417); the parser nests a heading under the nearest heading of
\* a lower level
\* fault injection: the trailing numbers of a title are stripped before the
\* tables are looked up, as process_children does
LevelOf_stripped(t) ==
    IF t = Language THEN 2
    ELSE IF t.base \in OtherEtymology \/ t.base \in OtherPronunciation THEN 3
    ELSE IF Classify(t) = "pos" THEN 4
    ELSE IF Classify(t) \in {"translations", "linkage", "compounds",
                             "inflection", "descendants", "ignored"} THEN 5
    ELSE 6

\* (line 3383: name_to_code gives a code for the name of a language)
LevelOf(t) ==
    IF t = Language THEN 2
    ELSE IF t.base \in OtherEtymology \/ t.base \in OtherPronunciation THEN 3
    ELSE IF t.num = 0 /\ t.base \in DOMAIN POS_SUBTITLES THEN 4
    ELSE IF t.num = 0 /\ (\/ t.base = OtherTranslations
                          \/ t.base \in DOMAIN LINKAGE_SUBTITLES
                          \/ t.base = OtherCompounds
                          \/ t.base \in OtherInflection
                          \/ t.base = OtherDescendants
                          \/ t.base \in OtherIgnored) THEN 5
    ELSE 6

LangFrame == [t |-> Language, pos |-> None, redirects |-> <<>>, level |-> 2,
              empty |-> FALSE]

\* the heading t with children sec has no child node
Childless(t, sec) == Classify(t) = "pos" /\ sec.kind = "none"

InitWalker ==
    /\ stack = <<LangFrame>>
    /\ subsection = NoTitle
    /\ base_data = [word |-> "Foo", lang |-> "Lang", lang_code |-> "xx"]
    /\ etym_data = EmptyDict
    /\ pos_data = EmptyDict
    /\ sense_data = EmptyDict
    /\ pos_datas = <<>>
    /\ etym_datas = <<>>
    /\ page_datas = <<>>
    /\ have_etym = FALSE
    /\ shared = {}
    /\ warned = {}
    /\ gta = {}
    /\ ret = <<>>
    /\ nhead = 0
    /\ log = <<>>
    /\ section_counts = EmptyDict

\* the calls open return up to the parent of the heading, the heading is
\* handled and the call for its children starts (lines 3011-3013)
\* line 3013: process_children(node, pos) for the children of the heading
EnterChildren(r, frames, t, level, sec) ==
    [s |-> r.s,
     frames |-> Append(frames, [t |-> t, pos |-> r.pos,
                                redirects |-> <<>>, level |-> level,
                                empty |-> Childless(t, sec)])]

\* u the state and the calls open when the heading is met
HandleAndEnter(u, t, level, sec, h) ==
    EnterChildren(HandleHeading(u.s, u.frames, t, sec, h), u.frames,
                  t, level, sec)

HeadingStep(s, frames, t, level, sec, h) ==
    HandleAndEnter(Unwind(s, frames, level), t, level, sec, h)

\* u the state when only the call of line 3270 is open
EndLanguage(u) == Finalize(EndChildren(u.s, u.frames[1]))

\* every open call returns, then lines 3274-3291
FinishStep(s, frames) == EndLanguage(Unwind(s, frames, 0))

\* the walk goes on in the state r.s with the calls r.frames open
Descend(r) == Commit(r.s) /\ stack' = r.frames

\* the entries f.ret are returned
Return(f) == Commit(f.s) /\ ret' = f.ret

\* lines 2931, 2952, 2964, 2999 and 3002: the scope the handler of the heading
\* t is given as data ("none" when the branch does not call select_data), u
\* the state and the calls open when the heading is met
SelectedData(u, t) ==
    IF Classify(t) = "pronunciation"
    THEN select_data(IF Numbered(t)
                     THEN [push_etym(u.s) EXCEPT !.subsection = NoTitle]
                     ELSE u.s, u.frames)
    ELSE IF Classify(t) \in {"descendants", "translations", "linkage",
                             "compounds"}
    THEN select_data(u.s, u.frames)
    ELSE "none"

\* process_children meets the heading t (with children sec) at the level given
Heading(t, level, sec) ==
    /\ pc = "walk"
    /\ stack[Len(stack)].empty => level <= stack[Len(stack)].level
    /\ Descend(HeadingStep(S, stack, t, level, sec, nhead + 1))
    /\ nhead' = nhead + 1
    /\ log' = Append(log, [h |-> nhead + 1, t |-> t, sec |-> sec,
                           data |-> SelectedData(Unwind(S, stack, level), t)])
    /\ section_counts' = Put(section_counts, t, Get(section_counts, t, 0) + 1)
    /\ UNCHANGED <<pc, mode, ret, aux>>

\* lines 2894-2901: a zh-see template among the children being walked
ZhSee(target) ==
    /\ pc = "walk"
    /\ ~stack[Len(stack)].empty
    /\ stack' = [stack EXCEPT ![Len(stack)].redirects = Append(@, target)]
    /\ UNCHANGED <<pc, mode, subsection, base_data, etym_data, pos_data,
                   sense_data, pos_datas, etym_datas, page_datas, have_etym,
                   shared, warned, gta, ret, nhead, log, section_counts, aux>>

\* the walk ends: every open call returns, then lines 3274-3291
Finish ==
    /\ pc = "walk"
    /\ Return(FinishStep(S, stack))
    /\ stack' = <<>>
    /\ pc' = "done"
    /\ UNCHANGED <<mode, nhead, log, section_counts, aux>>

-----------------------------------------------------------------------------
(* The ko walker: parse_section, parse_language_section and parse_page of
   extractor/ko/page.py.  page_datas is page_data and base_data the WordEntry
   of the language section. *)

\* ko/section_titles.py
POS_DATA == [noun |-> [pos |-> "noun"], verb |-> [pos |-> "verb"]]

\* line 25: re.sub(r"\s*\d+$", "", title_text)
ko_strip(t) == [t EXCEPT !.num = 0, !.glued = FALSE]

\* ko/pos.py: a deep copy of base_data is appended, with the pos of the table
\* for a title of the table and the senses of the gloss list of the section
extract_pos_section(page_data, base, sec, pos_title) ==
    LET pos == IF pos_title \in DOMAIN POS_DATA
               THEN POS_DATA[pos_title].pos
               ELSE base["pos"]
        senses == [j \in 1..Len(sec.items) |->
                      [glosses |-> <<sec.items[j].text.g>>]]
    IN Append(page_data, Put(Put(base, "pos", pos), "senses", senses))

\* lines 24-27 (the recursion of lines 29-30 is the walk itself)
parse_section(page_data, base, t, sec) ==
    LET title_text == ko_strip(t)
    IN IF title_text.num = 0 /\ title_text.base \in DOMAIN POS_DATA
       THEN extract_pos_section(page_data, base, sec, title_text.base)
       ELSE page_data

\* fault injection: parse_page without the loop of lines 72-74
FillNoGloss_skipped(page_data) == page_data

\* lines 72-74
FillNoGloss(page_data) ==
    [i \in 1..Len(page_data) |->
        IF page_data[i]["senses"] = <<>>
        THEN Put(page_data[i], "senses", <<[tags |-> <<"no-gloss">>]>>)
        ELSE page_data[i]]

KoTitles == {Title(b, n) : b \in {"noun", "verb", "foo"}, n \in {0, 2}}
            \cup {GluedTitle("noun", 2)}

KoSection ==
    /\ mode = "ko"
    /\ pc = "walk"
    /\ nhead < MaxHeadings
    /\ \E t \in KoTitles : \E sec \in {NoSec, FlatSec(nhead + 1, 1)} :
           /\ page_datas' = parse_section(page_datas, base_data, t, sec)
           /\ log' = Append(log, [h |-> nhead + 1, t |-> t, sec |-> sec,
                                  data |-> "none"])
    /\ nhead' = nhead + 1
    /\ UNCHANGED <<pc, mode, stack, subsection, base_data, etym_data, pos_data,
                   sense_data, pos_datas, etym_datas, have_etym, shared,
                   warned, gta, ret, section_counts, aux>>

\* lines 55-57 and 72-75: the language section ends and parse_page returns
KoFinish ==
    /\ mode = "ko"
    /\ pc = "walk"
    /\ LET page_data == IF log = <<>>
                        THEN extract_pos_section(page_datas, base_data,
                                                 NoSec, "")
                        ELSE page_datas
       IN /\ page_datas' = FillNoGloss(page_data)
          /\ ret' = FillNoGloss(page_data)
    /\ pc' = "done"
    /\ UNCHANGED <<mode, stack, subsection, base_data, etym_data, pos_data,
                   sense_data, pos_datas, etym_datas, have_etym, shared,
                   warned, gta, nhead, log, section_counts, aux>>

InitKo ==
    /\ stack = <<LangFrame>>
    /\ subsection = NoTitle
    /\ base_data = [word |-> "Foo", lang_code |-> "xx", lang |-> "Lang",
                    pos |-> "unknown"]
    /\ etym_data = EmptyDict
    /\ pos_data = EmptyDict
    /\ sense_data = EmptyDict
    /\ pos_datas = <<>>
    /\ etym_datas = <<>>
    /\ page_datas = <<>>
    /\ have_etym = FALSE
    /\ shared = {}
    /\ warned = {}
    /\ gta = {}
    /\ ret = <<>>
    /\ nhead = 0
    /\ log = <<>>
    /\ section_counts = EmptyDict

-----------------------------------------------------------------------------
(* Spec: parse_language of the en extractor on pages of every section kind,
   and the ko walker on pages of part-of-speech headings *)

WalkBases == {"etymology", "pronunciation", "descendants", "references",
              "noun", "abbreviation", "synonyms"}

\* the titles that carry a trailing number ("Etymology 2", "Noun 2")
NumberedBases == {"etymology", "pronunciation", "noun"}

WalkTitles == {Title(b, 0) : b \in WalkBases}
              \cup {Title(b, 2) : b \in NumberedBases}
              \cup {GluedTitle("noun", 2)}

WalkSecs(t, h) ==
    IF Classify(t) # "pos" THEN {NoSec}
    ELSE IF t = Title("noun", 0) THEN {NoSec, BareSec, FlatSec(h, 1)}
    ELSE {FlatSec(h, 1)}

WalkHeading ==
    /\ mode = "en"
    /\ nhead < MaxHeadings
    /\ \E t \in WalkTitles : \E sec \in WalkSecs(t, nhead + 1) :
           Heading(t, LevelOf(t), sec)

WalkZhSee ==
    /\ mode = "en"
    /\ pc = "walk"
    /\ Len(page_datas) + Len(stack[Len(stack)].redirects) < MaxRedirects
    /\ stack[Len(stack)].redirects = <<>>
    /\ ZhSee("Bar")

WalkFinish == mode = "en" /\ Finish

Init ==
    /\ pc = "walk"
    /\ aux = <<>>
    /\ \/ mode = "en" /\ InitWalker
       \/ mode = "ko" /\ InitKo

Next == WalkHeading \/ WalkZhSee \/ WalkFinish \/ KoSection \/ KoFinish

Spec == Init /\ [][Next]_vars

-----------------------------------------------------------------------------
(* SpecLifo: pages of etymology and part-of-speech headings with gloss lists *)

\* the number of etymology headings among the headings met
EtymologyCount(lg) ==
    Cardinality({i \in 1..Len(lg) : Classify(lg[i].t) = "etymology"})

LifoEtymology ==
    /\ nhead < LifoHeadings
    /\ LET t == Title("etymology", EtymologyCount(log) + 1)
       IN Heading(t, LevelOf(t), NoSec)

LifoPos ==
    /\ nhead < LifoHeadings
    /\ \E b \in {"noun", "verb"} : \E n \in GlossCounts :
           Heading(Title(b, 0), LevelOf(Title(b, 0)), FlatSec(nhead + 1, n))

LifoFinish == Finish

InitLifo ==
    /\ pc = "walk"
    /\ mode = "lifo"
    /\ aux = <<>>
    /\ InitWalker

NextLifo == LifoEtymology \/ LifoPos \/ LifoFinish

SpecLifo == InitLifo /\ [][NextLifo]_vars

-----------------------------------------------------------------------------
(* Properties of SpecLifo *)

\* the glosses of the senses of an entry, sense by sense
GlossesOf(entry) ==
    [i \in 1..Len(entry["senses"]) |-> Get(entry["senses"][i], "glosses", <<>>)]

\* the gloss texts of a gloss list, item by item
SectionGlosses(sec) == [j \in 1..Len(sec.items) |-> <<sec.items[j].text.g>>]

PosHeadings(lg) == SelectSeq(lg, LAMBDA e : Classify(e.t) = "pos")

\* Language(Foo) > Etymology 1 > Noun > [a, b] > Etymology 2 > Verb > [c]
C1Page ==
    <<[h |-> 1, t |-> Title("etymology", 1), sec |-> NoSec,
       data |-> "none"],
      [h |-> 2, t |-> Title("noun", 0), sec |-> FlatSec(2, 2),
       data |-> "none"],
      [h |-> 3, t |-> Title("etymology", 2), sec |-> NoSec,
       data |-> "none"],
      [h |-> 4, t |-> Title("verb", 0), sec |-> FlatSec(4, 1),
       data |-> "none"]>>

(* C1: for the page Language(Foo) > Etymology 1 > Noun > [a, b] >
   Etymology 2 > Verb > [c], parse_language returns exactly two entries in
   document order: the first has pos noun and two senses with glosses [a]
   and [b], the second has pos verb and one sense with glosses [c]; both
   carry the word Foo. *)
C1_TwoEntriesInOrder ==
    (pc = "done" /\ log = C1Page) =>
        /\ Len(ret) = 2
        /\ ret[1]["pos"] = "noun"
        /\ GlossesOf(ret[1]) = << <<GlossId(2, 1)>>, <<GlossId(2, 2)>> >>
        /\ ret[2]["pos"] = "verb"
        /\ GlossesOf(ret[2]) = << <<GlossId(4, 1)>> >>
        /\ \A i \in 1..2 : ret[i]["word"] = "Foo"

C1_Witness ==
    /\ pc = "done"
    /\ log = C1Page
    /\ Len(ret) = 2
    /\ Len(ret[1]["senses"]) = 2

\* the entries pushed so far, in the order they were pushed
Finished == IF pc = "done" THEN ret ELSE page_datas \o etym_datas

(* C2: every sense produced from a gloss list is in exactly one entry, the
   entry of the part-of-speech heading that most recently precedes the list:
   the i-th entry pushed holds exactly the glosses of the list of the i-th
   part-of-speech heading (so two etymologies of two headings of two glosses
   give 4 entries of 2 senses), and the senses of the heading still open are
   exactly those of its own list. *)
C2_SensesStayUnderTheirHeading ==
    LET ph == PosHeadings(log)
        open == IF pc = "walk" /\ subsection # NoTitle THEN 1 ELSE 0
    IN /\ Len(Finished) = Len(ph) - open
       /\ \A i \in 1..Len(Finished) :
              /\ GlossesOf(Finished[i]) = SectionGlosses(ph[i].sec)
              /\ Finished[i]["pos"] = POS_SUBTITLES[ph[i].t.base].pos
       /\ open = 1 =>
              GlossesOf([senses |-> pos_datas]) =
                  SectionGlosses(ph[Len(ph)].sec)

C2_Witness ==
    /\ pc = "done"
    /\ Len(log) = 6
    /\ [i \in 1..6 |-> Classify(log[i].t)] =
           <<"etymology", "pos", "pos", "etymology", "pos", "pos">>
    /\ Len(ret) = 4
    /\ \A i \in 1..4 : Len(ret[i]["senses"]) = 2

-----------------------------------------------------------------------------
(* SpecPos: parse_part_of_speech on sections of every shape: no children, a
   head line with or without a gloss text, and gloss lists whose items carry
   qualifiers, examples, sub-lists and sub-lists of sub-lists. *)

MaxSubs == 2            \* items of a sub-list
MaxAround == 1          \* items that follow the item under study
MaxPosHeadings == 2     \* part-of-speech headings of a page of SpecPos

QualText(g) == [k |-> "plain", q |-> "of fruit", g |-> g, link |-> 0]

QualOnlyText == QualText(0)

HubText == [k |-> "hub", q |-> "", g |-> 0, link |-> 0]

AltOfText(g) == [k |-> "altof", q |-> "", g |-> g, link |-> 0]

FormOfText(g) == [k |-> "formof", q |-> "", g |-> g, link |-> 0]

Leaf(tx) == [text |-> tx, subs |-> <<>>, ex |-> <<>>]

\* the identity of the i-th gloss text of the sub-list under the gloss g
SubGlossId(g, i) == g * 10 + i

SubKinds == {"plain", "qualonly", "empty", "nested"}

SubItem(kind, g) ==
    IF kind = "plain" THEN Leaf(PlainText(g))
    ELSE IF kind = "qualonly" THEN Leaf(QualOnlyText)
    ELSE IF kind = "empty" THEN Leaf(EmptyText)
    ELSE [text |-> PlainText(g),
          subs |-> <<Leaf(PlainText(SubGlossId(g, 1)))>>,
          ex |-> <<>>]

SubLists(g) ==
    UNION {{[i \in 1..m |-> SubItem(ks[i], SubGlossId(g, i))] :
               ks \in [1..m -> SubKinds]} : m \in 1..MaxSubs}

Example == "example"

RichItems(g) ==
    {Leaf(tx) : tx \in {PlainText(g), QualText(g), QualOnlyText, HubText,
                        EmptyText, AltOfText(g)}}
    \cup {[text |-> tx, subs |-> sl, ex |-> <<>>] :
              tx \in {PlainText(g), QualText(g), QualOnlyText},
              sl \in SubLists(g)}
    \cup {[text |-> PlainText(g), subs |-> sl, ex |-> <<Example>>] :
              sl \in {<<>>, <<Leaf(PlainText(SubGlossId(g, 1)))>>,
                      <<Leaf(PlainText(SubGlossId(g, 1))),
                        Leaf(PlainText(SubGlossId(g, 2)))>>}}

AroundKinds == {"plain", "qualonly", "hub"}

AroundItem(kind, g) ==
    IF kind = "plain" THEN Leaf(PlainText(g))
    ELSE IF kind = "qualonly" THEN Leaf(QualOnlyText)
    ELSE Leaf(HubText)

\* the items that follow the item under study in the list under heading h
Followers(h) ==
    UNION {{[i \in 1..m |-> AroundItem(ks[i], GlossId(h, 2 + i))] :
               ks \in [1..m -> AroundKinds]} : m \in 0..MaxAround}

HeadTags == {<<>>, <<"participle">>}

RichSecs(h) ==
    {[kind |-> "lists", htags |-> ht, text |-> EmptyText,
      items |-> pre \o <<it>> \o post] :
        ht \in HeadTags,
        pre \in {<<>>, <<PlainItem(GlossId(h, 1))>>},
        it \in RichItems(GlossId(h, 2)),
        post \in Followers(h)}
    \cup {[kind |-> "text", htags |-> ht, text |-> tx, items |-> <<>>] :
              ht \in HeadTags,
              tx \in {PlainText(GlossId(h, 1)), QualOnlyText, HubText,
                      EmptyText, AltOfText(GlossId(h, 1))}}
    \cup {NoSec}

\* an etymology section whose text is "inflection of W."
FormOfSec ==
    [kind |-> "text", htags |-> <<>>, text |-> FormOfText(7), items |-> <<>>]

PosEtymology ==
    /\ mode = "pos"
    /\ log = <<>>
    /\ Heading(Title("etymology", 0), LevelOf(Title("etymology", 0)),
               FormOfSec)

PosSection ==
    /\ mode = "pos"
    /\ PosHeadings(log) = <<>>
    /\ \E sec \in RichSecs(nhead + 1) :
           Heading(Title("noun", 0), LevelOf(Title("noun", 0)), sec)

PosFollowing ==
    /\ mode = "pos"
    /\ PosHeadings(log) # <<>>
    /\ Len(PosHeadings(log)) < MaxPosHeadings
    /\ Heading(Title("verb", 0), LevelOf(Title("verb", 0)),
               FlatSec(nhead + 1, 1))

PosFinish == mode = "pos" /\ Finish

InitPos ==
    /\ pc = "walk"
    /\ mode = "pos"
    /\ aux = <<>>
    /\ InitWalker

NextPos == PosEtymology \/ PosSection \/ PosFollowing \/ PosFinish

SpecPos == InitPos /\ [][NextPos]_vars

-----------------------------------------------------------------------------
(* Properties of Spec *)

(* C6: no entry appended to the etymology pending list or to the page result
   list (redirect entries included) shares a list or dict with pos_data,
   etym_data or base_data: while the walk goes on, a step that changes those
   scopes changes no field of an entry already in either list. *)
C6_AppendedEntriesNeverChange ==
    [][pc' = "walk" =>
        /\ \A i \in 1..Len(page_datas) : page_datas'[i] = page_datas[i]
        /\ Len(etym_datas') >= Len(etym_datas) =>
               \A i \in 1..Len(etym_datas) : etym_datas'[i] = etym_datas[i]]_vars

\* a redirect entry holds the descendants list of base_data
C6_Witness ==
    /\ pc = "walk"
    /\ \E i \in 1..Len(page_datas) :
           /\ <<i, "descendants">> \in shared
           /\ Has(page_datas[i], "redirects")

\* the part-of-speech table of the walker that runs
PosTable == IF mode = "ko" THEN POS_DATA ELSE POS_SUBTITLES

\* the entries of part-of-speech headings pushed so far (a redirect entry
\* has no senses)
PosEntries == SelectSeq(Finished, LAMBDA d : Has(d, "senses"))

\* 1 when the entry of the last part-of-speech heading is not pushed yet
OpenPos == IF mode = "en" /\ pc = "walk" /\ subsection # NoTitle THEN 1 ELSE 0

\* the i-th entry exists for the i-th of the headings and has the pos of the
\* table
EntriesMatch(headings) ==
    /\ Len(PosEntries) >= Len(headings) - OpenPos
    /\ \A i \in 1..(Len(headings) - OpenPos) :
           PosEntries[i]["pos"] = PosTable[headings[i].t.base].pos

(* C7: a heading whose title is a key of the part-of-speech table followed
   by a trailing number is handled as a part-of-speech section by the en
   walker and by the ko walker, and the pos of its entry is the pos of the
   table: the entries of part-of-speech headings are, in order, those of the
   headings whose title is a key with or without a number after it. *)
C7_NumberedTitleIsPos ==
    EntriesMatch(SelectSeq(log, LAMBDA e : e.t.base \in DOMAIN PosTable))

(* C7, as the code has it: the en walker strips the numbers that whitespace
   separates from the key ("Noun 2"), and takes "Noun2" for an unknown
   title; the ko walker strips a number with or without whitespace. *)
C7_SpacedNumberedTitleIsPos ==
    EntriesMatch(SelectSeq(log, LAMBDA e :
        /\ e.t.base \in DOMAIN PosTable
        /\ mode = "ko" \/ ~e.t.glued \/ e.t.num = 0))

C7_Witness ==
    /\ pc = "done"
    /\ mode = "en"
    /\ Len(log) = 1
    /\ log[1].t = Title("noun", 2)
    /\ Len(ret) = 1
    /\ ret[1]["pos"] = "noun"

-----------------------------------------------------------------------------
(* Properties of SpecPos *)

\* the state of parse_language before the first heading
FreshState ==
    [sense_data |-> EmptyDict, pos_data |-> EmptyDict, etym_data |-> EmptyDict,
     base_data |-> [word |-> "Foo", lang |-> "Lang", lang_code |-> "xx"],
     pos_datas |-> <<>>, etym_datas |-> <<>>, page_datas |-> <<>>,
     have_etym |-> FALSE, subsection |-> NoTitle, shared |-> {},
     warned |-> {}, gta |-> {}]

\* the senses the gloss handler pushes for a section, before the fallback of
\* lines 1191-1197
HandledSenses(sec) ==
    IF sec.kind = "none" THEN <<>>
    ELSE IF sec.kind = "text"
    THEN push_sense(process_gloss_without_list(FreshState, sec,
                                               sec.htags)).pos_datas
    ELSE push_sense(SenseNodes(FreshState, sec.items, sec.htags)).pos_datas

\* the one sense has no gloss, the tag no-gloss and every header tag
IsDummySense(senses, htags) ==
    /\ Len(senses) = 1
    /\ Get(senses[1], "glosses", <<>>) = <<>>
    /\ InSeq("no-gloss", Get(senses[1], "tags", <<>>))
    /\ \A i \in 1..Len(htags) : InSeq(htags[i], Get(senses[1], "tags", <<>>))

(* C4: when the section of a part-of-speech heading yields zero senses
   (whatever its content, a section with no content at all included), the
   entry push_pos builds for the heading has exactly one sense, with no
   gloss, the tag no-gloss and every header tag; no entry of a part-of-speech
   heading has an empty sense list. *)
C4_EmptySectionGetsDummySense ==
    \A i \in 1..Len(Finished) :
        Has(Finished[i], "senses") =>
            /\ Finished[i]["senses"] # <<>>
            /\ (i = 1 /\ HandledSenses(PosHeadings(log)[1].sec) = <<>>) =>
                   IsDummySense(Finished[1]["senses"],
                                PosHeadings(log)[1].sec.htags)

\* C4 for the headings that have a child node (lines 969-980 not taken)
C4_SectionWithChildren ==
    \A i \in 1..Len(Finished) :
        (Has(Finished[i], "senses") /\ PosHeadings(log)[i].sec.kind # "none") =>
            /\ Finished[i]["senses"] # <<>>
            /\ (i = 1 /\ HandledSenses(PosHeadings(log)[1].sec) = <<>>) =>
                   IsDummySense(Finished[1]["senses"],
                                PosHeadings(log)[1].sec.htags)

\* the entry of a heading without any child node has been returned
C4_Witness ==
    /\ pc = "done"
    /\ Len(ret) = 1
    /\ PosHeadings(log)[1].sec = NoSec

\* the item "(of fruit) ripe" with the one sub-item "very ripe"
C8Item(g) ==
    [text |-> QualText(g),
     subs |-> <<Leaf(PlainText(SubGlossId(g, 1)))>>,
     ex |-> <<>>]

\* the page Language > Noun > [C8Item] has been parsed
C8Case ==
    /\ pc = "done"
    /\ Len(log) = 1
    /\ log[1].sec = [kind |-> "lists", htags |-> <<>>, text |-> EmptyText,
                     items |-> <<C8Item(GlossId(1, 2))>>]

(* C8: a gloss item "(of fruit) ripe" whose only sub-list has the one item
   "very ripe" produces exactly one sense, whose glosses are the outer text
   followed by the text of the sub-item; it does not produce two senses. *)
C8_SingleChildGivesOneSense ==
    C8Case =>
        /\ Len(ret) = 1
        /\ GlossesOf(ret[1]) =
               << <<GlossId(1, 2), SubGlossId(GlossId(1, 2), 1)>> >>

(* C8, as the code has it: the item produces two senses, the first with the
   outer gloss alone, the second with the outer gloss followed by the gloss
   of the sub-item. *)
C8_SingleChildGivesTwoSenses ==
    C8Case =>
        /\ Len(ret) = 1
        /\ GlossesOf(ret[1]) =
               << <<GlossId(1, 2)>>,
                  <<GlossId(1, 2), SubGlossId(GlossId(1, 2), 1)>> >>

C8_Witness == C8Case /\ Len(ret) = 1 /\ Len(ret[1]["senses"]) = 2

SenseHasGlossOrTag(sense) ==
    \/ Get(sense, "glosses", <<>>) # <<>>
    \/ InSeq("no-gloss", Get(sense, "tags", <<>>))

(* C9: in every state of parse_language, each sense of the sense list of the
   current part of speech and each sense of every entry pushed or returned
   has at least one gloss or carries the tag no-gloss (a translation-hub
   sense carries no-gloss too). *)
C9_SenseHasGlossOrNoGloss ==
    /\ \A i \in 1..Len(pos_datas) : SenseHasGlossOrTag(pos_datas[i])
    /\ \A i \in 1..Len(Finished) :
           LET senses == Get(Finished[i], "senses", <<>>)
           IN \A j \in 1..Len(senses) : SenseHasGlossOrTag(senses[j])

\* a returned entry holds a translation-hub sense
C9_Witness ==
    /\ pc = "done"
    /\ \E i \in 1..Len(ret) :
           \E j \in 1..Len(ret[i]["senses"]) :
               /\ InSeq("translation-hub", Get(ret[i]["senses"][j], "tags", <<>>))
               /\ InSeq("no-gloss", Get(ret[i]["senses"][j], "tags", <<>>))
               /\ ~Has(ret[i]["senses"][j], "glosses")

-----------------------------------------------------------------------------
(* SpecPush: push_sense on the scratch senses the gloss handler builds with
   data_append.  aux remembers the last call: whether the scratch sense had a
   gloss or a marker tag (marked), what the call returned (ret) and whether
   it left the sense list as it was (kept). *)

MaxScratch == 2         \* values appended to the scratch sense
MaxPushed == 1          \* senses pushed

ScratchTags == {"no-gloss", "translation-hub", "participle"}

ScratchSize ==
    Len(Get(sense_data, "tags", <<>>)) + Len(Get(sense_data, "glosses", <<>>))

PushAddGloss ==
    /\ mode = "push"
    /\ ScratchSize < MaxScratch
    /\ sense_data' = data_append(sense_data, "glosses", ScratchSize + 1)
    /\ pc' = "build"
    /\ UNCHANGED <<mode, stack, subsection, base_data, etym_data, pos_data,
                   pos_datas, etym_datas, page_datas, have_etym, shared,
                   warned, gta, ret, nhead, log, section_counts, aux>>

PushAddTag ==
    /\ mode = "push"
    /\ ScratchSize < MaxScratch
    /\ \E tag \in ScratchTags :
           /\ ~InSeq(tag, Get(sense_data, "tags", <<>>))
           /\ sense_data' = data_append(sense_data, "tags", tag)
    /\ pc' = "build"
    /\ UNCHANGED <<mode, stack, subsection, base_data, etym_data, pos_data,
                   pos_datas, etym_datas, page_datas, have_etym, shared,
                   warned, gta, ret, nhead, log, section_counts, aux>>

PushSense ==
    /\ mode = "push"
    /\ PushSenseFires(sense_data) => Len(pos_datas) < MaxPushed
    /\ LET s1 == push_sense(S)
       IN /\ Commit(s1)
          /\ aux' = [marked |-> PushSenseFires(sense_data),
                     ret |-> push_sense_ret(S),
                     kept |-> s1.pos_datas = pos_datas]
    /\ pc' = "pushed"
    /\ UNCHANGED <<mode, stack, ret, nhead, log, section_counts>>

\* an etymology text "inflection of W."
FormOfEtymology ==
    [etymology_text |->
        [id |-> 1, text |-> [k |-> "formof", q |-> "", g |-> 7, link |-> 0]]]

InitPush ==
    /\ pc = "build"
    /\ mode = "push"
    /\ aux = [marked |-> FALSE, ret |-> FALSE, kept |-> TRUE]
    /\ stack = <<LangFrame>>
    /\ subsection = NoTitle
    /\ base_data = [word |-> "Foo", lang |-> "Lang", lang_code |-> "xx"]
    /\ etym_data \in {EmptyDict, FormOfEtymology}
    /\ pos_data = EmptyDict
    /\ sense_data = EmptyDict
    /\ pos_datas = <<>>
    /\ etym_datas = <<>>
    /\ page_datas = <<>>
    /\ have_etym = FALSE
    /\ shared = {}
    /\ warned = {}
    /\ gta = {}
    /\ ret = <<>>
    /\ nhead = 0
    /\ log = <<>>
    /\ section_counts = EmptyDict

NextPush == PushAddGloss \/ PushAddTag \/ PushSense

SpecPush == InitPush /\ [][NextPush]_vars

(* C3: a call of push_sense on a scratch sense with no glosses and neither
   the no-gloss nor the translation-hub tag leaves the sense list of the
   part of speech unchanged, returns False, and leaves the scratch sense
   (sense_data) empty. *)
C3_PushSenseClearsScratch ==
    (pc = "pushed" /\ ~aux.marked) =>
        /\ aux.kept
        /\ ~aux.ret
        /\ sense_data = EmptyDict

\* what the call does keep of C3: no sense is added and False is returned
C3_PushSenseAddsNothing ==
    (pc = "pushed" /\ ~aux.marked) => (aux.kept /\ ~aux.ret)

\* push_sense has been called on a scratch sense that holds only a tag
C3_Witness ==
    /\ pc = "pushed"
    /\ ~aux.marked
    /\ Get(sense_data, "tags", <<>>) = <<"participle">>

-----------------------------------------------------------------------------
(* SpecMerge: merge_base(data, base) on every pair of small scopes.  pos_data
   is the destination data, base_data the source base; aux keeps the
   destination as it was before the call. *)

\* the values a scope may hold under each key
MergeValues ==
    [pos |-> {"noun", "verb"},
     etymology_text |-> {"from A", "from B"},
     word |-> {"Foo"},
     tags |-> {<<"archaic">>, <<"plural">>},
     forms |-> {<<[form |-> "Bar"]>>},
     sounds |-> {<<[ipa |-> "a"]>>,
                 <<[ipa |-> "a", pos |-> "verb"]>>,
                 <<[ipa |-> "a", form |-> "Bar"], [ipa |-> "b", form |-> "Baz"]>>}]

RECURSIVE DictsOver(_)
DictsOver(keys) ==
    IF keys = {} THEN {EmptyDict}
    ELSE LET k == CHOOSE x \in keys : TRUE
             rest == DictsOver(keys \ {k})
         IN rest \cup {Put(d, k, v) : d \in rest, v \in MergeValues[k]}

MergeScopes == DictsOver(DOMAIN MergeValues)

Merge ==
    /\ mode = "merge"
    /\ pc = "build"
    /\ pos_data' = merge_base(pos_data, base_data)
    /\ warned' = warned \cup MergeConflicts(pos_data, base_data)
    /\ aux' = [data |-> pos_data]
    /\ pc' = "merged"
    /\ UNCHANGED <<mode, stack, subsection, base_data, etym_data, sense_data,
                   pos_datas, etym_datas, page_datas, have_etym, shared, gta,
                   ret, nhead, log, section_counts>>

InitMerge ==
    /\ pc = "build"
    /\ mode = "merge"
    /\ aux = [data |-> EmptyDict]
    /\ stack = <<LangFrame>>
    /\ subsection = NoTitle
    /\ base_data \in MergeScopes
    /\ pos_data \in MergeScopes
    /\ etym_data = EmptyDict
    /\ sense_data = EmptyDict
    /\ pos_datas = <<>>
    /\ etym_datas = <<>>
    /\ page_datas = <<>>
    /\ have_etym = FALSE
    /\ shared = {}
    /\ warned = {}
    /\ gta = {}
    /\ ret = <<>>
    /\ nhead = 0
    /\ log = <<>>
    /\ section_counts = EmptyDict

NextMerge == Merge

SpecMerge == InitMerge /\ [][NextMerge]_vars

\* the scalar keys that the destination and the source held with different
\* values before the call
ScalarConflicts ==
    {k \in (DOMAIN aux.data) \cap (DOMAIN base_data) :
        k \notin ListKeys /\ aux.data[k] # base_data[k]}

(* C5: when merge_base finds the same key with different scalar values in
   the destination and in the source, the destination afterwards holds a
   list of both values and a warning has been logged; the destination never
   holds only one of the two values (a list of both values is neither of
   them). *)
C5_ConflictKeepsBothValues ==
    pc = "merged" =>
        \A k \in ScalarConflicts :
            /\ k \in warned
            /\ pos_data[k] # aux.data[k]
            /\ pos_data[k] # base_data[k]

(* C5, as the code has it: the destination keeps its own value, the value of
   the source is dropped, and a warning has been logged. *)
C5_ConflictKeepsDestination ==
    pc = "merged" =>
        \A k \in ScalarConflicts :
            /\ k \in warned
            /\ pos_data[k] = aux.data[k]

C5_Witness ==
    /\ pc = "merged"
    /\ "pos" \in ScalarConflicts
    /\ pos_data["pos"] = "noun"
    /\ base_data["pos"] = "verb"
    /\ "pos" \in warned

-----------------------------------------------------------------------------
(* SpecPages: parse_page called for one page after another with the same
   context.  Every page has one language section; its headings are
   etymology and noun headings, the noun sections holding a gloss list, a
   gloss text that links to a word, or a gloss text "alternative form of"
   that word.  aux.page counts the pages; log, nhead and ret are those of
   the page being parsed. *)

MaxPages == 2

PageHeadings == 2

\* the word the gloss texts of the pages link to or are a form of
PageLink == GlossId(1, 1)

LinkText(g) == [k |-> "plain", q |-> "", g |-> g, link |-> PageLink]

TextSec(tx) == [kind |-> "text", htags |-> <<>>, text |-> tx, items |-> <<>>]

PageSecs(t, h) ==
    IF Classify(t) # "pos" THEN {NoSec}
    ELSE {FlatSec(h, 1), TextSec(LinkText(GlossId(h, 2))),
          TextSec(AltOfText(PageLink))}

\* fault injection: the default argument made once and kept for every call
DefaultGlossArgs_kept(previous) == previous

\* line 1403: the default value of gloss_template_args is made when the def
\* statement of process_gloss_contents runs, once in each parse_language call
DefaultGlossArgs(previous) == {}

PagesHeading ==
    /\ mode = "pages"
    /\ nhead < PageHeadings
    /\ \E t \in {Title("etymology", 0), Title("noun", 0)} :
           \E sec \in PageSecs(t, nhead + 1) :
               Heading(t, LevelOf(t), sec)

PagesFinish == mode = "pages" /\ Finish

\* parse_page is called for the next page: lines 3430-3470 and the locals of
\* parse_language are made anew, wxr.config stays
PagesNext ==
    /\ mode = "pages"
    /\ pc = "done"
    /\ aux.page < MaxPages
    /\ Commit([FreshState EXCEPT !.gta = DefaultGlossArgs(gta)])
    /\ stack' = <<LangFrame>>
    /\ ret' = <<>>
    /\ nhead' = 0
    /\ log' = <<>>
    /\ pc' = "walk"
    /\ aux' = [aux EXCEPT !.page = @ + 1]
    /\ UNCHANGED <<mode, section_counts>>

InitPages ==
    /\ pc = "walk"
    /\ mode = "pages"
    /\ aux = [page |-> 1]
    /\ InitWalker

NextPages == PagesHeading \/ PagesFinish \/ PagesNext

SpecPages == InitPages /\ [][NextPages]_vars

\* the entries of a page whose headings are lg, parsed in a context that
\* has parsed no page before
RECURSIVE WalkFrom(_, _, _)
\* the state after a heading is computed before the walk goes on
RECURSIVE WalkOn(_, _)
WalkFrom(s, frames, lg) ==
    IF lg = <<>> THEN [s |-> s, frames |-> frames]
    ELSE CHOOSE w \in
             {WalkOn(r, Tail(lg)) :
                  r \in {HeadingStep(s, frames, Head(lg).t,
                                     LevelOf(Head(lg).t), Head(lg).sec,
                                     Head(lg).h)}} : TRUE

WalkOn(r, lg) == WalkFrom(r.s, r.frames, lg)

Walked(w) == FinishStep(w.s, w.frames).ret

ParsedAlone(lg) == Walked(WalkFrom(FreshState, <<LangFrame>>, lg))

\* the number of headings titled t among those of lg
RECURSIVE TitleCount(_, _)
TitleCount(t, lg) ==
    IF lg = <<>> THEN 0
    ELSE (IF Head(lg).t = t THEN 1 ELSE 0) + TitleCount(t, Tail(lg))

(* C10: the entries parse_page returns for a page do not depend on the pages
   parsed before it with the same context, and no mutable object written
   while one page is parsed is read while another is parsed: whatever the
   walker reads at a heading of a page (the counter of the title in
   wxr.config.section_counts it increments there included) holds only what
   this page has written. *)
C10_NothingWrittenIsReadLater ==
    mode = "pages" =>
        /\ pc = "done" => ret = ParsedAlone(log)
        /\ \A i \in 1..Len(log) :
               Get(section_counts, log[i].t, 0) = TitleCount(log[i].t, log)

(* C10, as the code has it: the entries returned for a page are those of the
   page parsed alone, whatever pages were parsed before; the template
   arguments collected by the gloss handler do not pass from page to page. *)
C10_EntriesDependOnPageOnly ==
    (mode = "pages" /\ pc = "done") => ret = ParsedAlone(log)

\* the second page is parsed, its noun section is an alternative form of the
\* word that the first page linked to, and the counter of its title has
\* counted the headings of both pages
C10_Witness ==
    /\ mode = "pages"
    /\ pc = "done"
    /\ aux.page = 2
    /\ Len(log) = 1
    /\ log[1].sec = TextSec(AltOfText(PageLink))
    /\ Len(ret) = 1
    /\ ret[1]["senses"][1]["alt_of"] = <<[word |-> PageLink, period |-> FALSE]>>
    /\ Get(section_counts, Title("noun", 0), 0) = 3

-----------------------------------------------------------------------------
(* SpecTrans: process_translation_list_item of extractor/zh/translation.py
   on one list item, one child at a time.

   A child is [kind, name, params, span, text, colon]: a string (kind "str",
   colon telling that it ends in a colon), a link (kind "link") or a
   template (kind "template"): params are the template
   parameters present (keys "1", "2", "tr", "data"; alt and lit are read as
   tr is) and span tells what the expansion of the template holds: "none",
   "gender" (a span of class gender with a titled abbr), "untitled" (the
   same with an abbr that has no title attribute) or "tr" (a span of class
   "tr ...").  aux is [tr_data, translations, sense, raised, n]:
   translations is page_data[-1].translations, raised the exception that
   left the function ("none" while it runs or when it returned), n the
   number of children handled. *)

MaxChildren == 3

\* models.Translation with the defaults the handler relies on
Translation(sense, lang, lang_code) ==
    [word |-> "", sense |-> sense, lang |-> lang, lang_code |-> lang_code,
     roman |-> "", tags |-> <<>>]

\* mediawiki_langcodes.name_to_code and code_to_name for the one language
name_to_code(name) == IF name = "French" THEN "fr" ELSE ""

code_to_name(code) == IF code = "fr" THEN "French" ELSE ""

\* lines 52-60
TranslationTemplates == {"t", "t+", "tt", "tt+", "t-check", "t+check",
                         "t-needed"}

Raise(st, e) == [st EXCEPT !.raised = e]

\* lines 61-70 and 114-121: a translation already read is appended
FlushWord(st) ==
    IF st.tr_data.word # ""
    THEN [st EXCEPT !.translations = Append(@, st.tr_data),
                    !.tr_data = Translation(st.sense, st.tr_data.lang,
                                            st.tr_data.lang_code)]
    ELSE st

\* lines 73-74
SetLang(st) ==
    IF st.tr_data.lang = ""
    THEN [st EXCEPT !.tr_data.lang = code_to_name(st.tr_data.lang_code)]
    ELSE st

\* lines 71-72; template_parameters[1] is defined
SetLangCode(st, child) ==
    IF st.tr_data.lang_code = ""
    THEN [st EXCEPT !.tr_data.lang_code = child.params["1"]]
    ELSE st

\* lines 75-80; template_parameters[2] is defined
SetWord(st, child) ==
    [st EXCEPT !.tr_data.word = child.params["2"],
               !.tr_data.roman = IF "tr" \in DOMAIN child.params
                                 THEN child.params["tr"] ELSE ""]

\* lines 88-102: the spans of the expanded template
GenderTags(st, child) ==
    IF child.span = "gender"
    THEN [st EXCEPT !.tr_data.tags = Append(@, "masculine")]
    ELSE IF child.span = "untitled"
    THEN Raise(st, "TypeError")        \* line 95: len(None)
    ELSE IF child.span = "tr" /\ st.tr_data.roman = ""
    THEN [st EXCEPT !.tr_data.roman = "mo"]
    ELSE st

\* lines 71-102, st the state after lines 61-70
TranslationTemplate(st, child) ==
    IF st.tr_data.lang_code = "" /\ "1" \notin DOMAIN child.params
    THEN Raise(st, "KeyError")         \* line 72
    ELSE IF "2" \notin DOMAIN child.params
    THEN Raise(SetLang(SetLangCode(st, child)), "KeyError")     \* line 76
    ELSE GenderTags(SetWord(SetLang(SetLangCode(st, child)), child), child)

\* lines 46-122 for one child
TranslationChild(st, child) ==
    IF child.kind = "str"
    THEN IF child.colon
         THEN [st EXCEPT !.tr_data.lang = child.name,
                         !.tr_data.lang_code = name_to_code(child.name)]
         ELSE st
    ELSE IF child.kind = "template"
    THEN IF child.name \in TranslationTemplates
         THEN TranslationTemplate(FlushWord(st), child)
         ELSE IF child.name = "multitrans"
         \* line 105 reads child.template_parameter, an attribute that
         \* TemplateNode (template_name, template_parameters) does not have
         THEN Raise(st, "AttributeError")
         ELSE IF child.text # ""
         THEN [st EXCEPT !.tr_data.tags = Append(@, child.text)]
         ELSE st
    ELSE [FlushWord(st) EXCEPT !.tr_data.word = child.text]

NoParams == [k \in {} |-> ""]

\* the string "name" or "name:"
Str(name, colon) ==
    [kind |-> "str", name |-> name, params |-> NoParams, span |-> "none",
     text |-> name, colon |-> colon]

Link(text) ==
    [kind |-> "link", name |-> "", params |-> NoParams, span |-> "none",
     text |-> text, colon |-> FALSE]

\* text is what clean_node makes of the template
Template(name, params, span, text) ==
    [kind |-> "template", name |-> name, params |-> params, span |-> span,
     text |-> text, colon |-> FALSE]

Params12 == [k \in {"1", "2"} |-> IF k = "1" THEN "fr" ELSE "mot"]

TransChildren ==
    {Str("French", TRUE), Str("note", FALSE), Link("mot"),
     Template("t", Params12, "none", ""),
     Template("t+", Params12, "gender", ""),
     Template("t", Params12, "untitled", ""),
     Template("t", Params12, "tr", ""),
     Template("tt", [k \in {"1", "2", "tr"} |->
                        IF k = "1" THEN "fr" ELSE IF k = "2" THEN "mot"
                        ELSE "mo"], "tr", ""),
     Template("t", [k \in {"2"} |-> "mot"], "none", ""),
     Template("t-needed", [k \in {"1"} |-> "fr"], "none", ""),
     Template("multitrans", [k \in {"data"} |-> "list"], "none", ""),
     Template("qualifier", [k \in {"1"} |-> "rare"], "none", "rare"),
     Template("q", NoParams, "none", "")}

\* the loop of line 46 takes the next child
TransChild ==
    /\ mode = "trans"
    /\ pc = "item"
    /\ aux.n < MaxChildren
    /\ \E child \in TransChildren :
           /\ aux' = [TranslationChild(aux, child) EXCEPT
                          !.n = @ + 1, !.last = child]
           /\ pc' = IF TranslationChild(aux, child).raised # "none"
                    THEN "raised" ELSE "item"
    /\ UNCHANGED <<mode, stack, subsection, base_data, etym_data, pos_data,
                   sense_data, pos_datas, etym_datas, page_datas, have_etym,
                   shared, warned, gta, ret, nhead, log, section_counts>>

\* lines 124-125: the children are exhausted and the function returns
TransReturn ==
    /\ mode = "trans"
    /\ pc = "item"
    /\ aux' = FlushWord(aux)
    /\ pc' = "returned"
    /\ UNCHANGED <<mode, stack, subsection, base_data, etym_data, pos_data,
                   sense_data, pos_datas, etym_datas, page_datas, have_etym,
                   shared, warned, gta, ret, nhead, log, section_counts>>

InitTrans ==
    /\ pc = "item"
    /\ mode = "trans"
    /\ aux = [tr_data |-> Translation("sense", "", ""), translations |-> <<>>,
              sense |-> "sense", raised |-> "none", n |-> 0,
              last |-> Str("", FALSE)]
    /\ InitWalker

NextTrans == TransChild \/ TransReturn

SpecTrans == InitTrans /\ [][NextTrans]_vars

(* C11: process_translation_list_item never raises: for every list item made
   of strings, links and templates, whatever parameters the templates have,
   the function returns normally. *)
C11_NeverRaises == mode = "trans" => aux.raised = "none" /\ pc # "raised"

\* the item "French: {{t-needed|fr}}" has raised KeyError on line 76
C11_Witness ==
    /\ mode = "trans"
    /\ pc = "raised"
    /\ aux.n = 2
    /\ aux.last = Template("t-needed", [k \in {"1"} |-> "fr"], "none", "")
    /\ aux.raised = "KeyError"
    /\ aux.tr_data.lang = "French"

-----------------------------------------------------------------------------
(* Properties of SpecPos: items with a sub-list of several items *)

\* a gloss item with a gloss text of its own, a sub-list of two or more
\* items that are plain gloss texts, and no example of its own
C12Item(item) ==
    /\ item.text.k = "plain"
    /\ item.text.g # 0
    /\ item.ex = <<>>
    /\ Len(item.subs) >= 2
    /\ \A i \in 1..Len(item.subs) :
           /\ item.subs[i].subs = <<>>
           /\ item.subs[i].ex = <<>>
           /\ item.subs[i].text.k = "plain"
           /\ item.subs[i].text.q = ""
           /\ item.subs[i].text.g # 0

\* the page Language > Noun > [item] has been parsed, item as in C12Item
C12Case ==
    /\ mode = "pos"
    /\ pc = "done"
    /\ Len(log) = 1
    /\ log[1].sec.kind = "lists"
    /\ Len(log[1].sec.items) = 1
    /\ C12Item(log[1].sec.items[1])

(* C12: a gloss list item with direct text and a sub-list of N >= 2 items,
   with no example at the outer level, produces exactly N senses; the glosses
   of the i-th sense are the outer text followed by the text of the i-th
   sub-item, every sense has the tags of the outer item, and there is no
   sense for the outer text alone. *)
C12_OneSensePerSubItem ==
    C12Case =>
        LET item == log[1].sec.items[1]
        IN /\ Len(ret) = 1
           /\ GlossesOf(ret[1]) =
                  [i \in 1..Len(item.subs) |->
                      <<item.text.g, item.subs[i].text.g>>]
           /\ item.text.q # "" =>
                  \A i \in 1..Len(item.subs) :
                      InSeq(item.text.q, Get(ret[1]["senses"][i], "tags", <<>>))

\* "(of fruit) ripe" with the two sub-items has given two senses
C12_Witness ==
    /\ C12Case
    /\ log[1].sec.items[1].text = QualText(GlossId(1, 2))
    /\ Len(log[1].sec.items[1].subs) = 2
    /\ Len(ret[1]["senses"]) = 2
    /\ ret[1]["senses"][2]["glosses"] =
           <<GlossId(1, 2), SubGlossId(GlossId(1, 2), 2)>>

-----------------------------------------------------------------------------
(* Properties of Spec: the entries of the ko parse_page *)

\* the headings for which parse_section calls extract_pos_section
KoPosHeadings ==
    SelectSeq(log, LAMBDA e : ko_strip(e.t).base \in DOMAIN POS_DATA)

(* C13: every entry the ko parse_page returns has at least one sense; an
   entry for which the walk extracted no sense has exactly one sense, whose
   only tag is no-gloss and which has no glosses. *)
C13_KoEntryHasSense ==
    (mode = "ko" /\ pc = "done") =>
        \A i \in 1..Len(ret) :
            /\ Len(ret[i]["senses"]) >= 1
            /\ (log = <<>> \/ KoPosHeadings[i].sec.items = <<>>) =>
                   ret[i]["senses"] = <<[tags |-> <<"no-gloss">>]>>

\* a page with a part-of-speech section without gloss list and one with a
\* gloss list has been returned
C13_Witness ==
    /\ mode = "ko"
    /\ pc = "done"
    /\ Len(ret) = 2
    /\ KoPosHeadings[1].sec = NoSec
    /\ ret[1]["senses"] = <<[tags |-> <<"no-gloss">>]>>
    /\ Len(ret[2]["senses"]) = 1
    /\ Has(ret[2]["senses"][1], "glosses")


\* ---------------------------------------------------------------------
\* The order of the flushes when the etymology scope is reset

\* the entries waiting for the page once the open sense and then the open
\* part of speech have been flushed
PendingAfterPos ==
    etym_datas \o
        (IF subsection # NoTitle
         THEN <<merge_base([senses |-> push_sense(S).pos_datas], pos_data)>>
         ELSE <<>>)

\* the page once the waiting entries have been merged with the etymology
FlushedPage == page_datas \o MergeAll(PendingAfterPos, etym_data)

EtymologyEntered ==
    /\ Len(log') = Len(log) + 1
    /\ Classify(log'[Len(log')].t) = "etymology"

LanguageEnded == pc = "walk" /\ pc' = "done"

\* C14: when an etymology heading is entered and when the language section
\* ends, the open sense is flushed into the sense list, then the part of
\* speech with that list into the pending list, then every pending entry,
\* merged with the etymology data, onto the page; right after that the sense
\* list and the pending list are empty, no part of speech is open, and the
\* etymology scope holds nothing of the etymology that was left
C14_FlushOrder ==
    [][mode = "lifo" =>
        /\ EtymologyEntered =>
              /\ page_datas' = FlushedPage
              /\ pos_datas' = <<>> /\ etym_datas' = <<>>
              /\ subsection' = NoTitle /\ pos_data' = EmptyDict
              /\ etym_data' =
                     parse_etymology(
                         [S EXCEPT !.etym_data =
                             [etymology_number |-> log'[Len(log')].t.num]],
                         nhead', log'[Len(log')].sec).etym_data
        /\ LanguageEnded =>
              /\ Len(ret') = Len(FlushedPage)
              /\ \A i \in 1..Len(FlushedPage) :
                     ret'[i] = CopyTagsToSenses(
                                   merge_base(FlushedPage[i], base_data))
              /\ pos_datas' = <<>> /\ etym_datas' = <<>>
              /\ subsection' = NoTitle /\ pos_data' = EmptyDict
              /\ etym_data' = EmptyDict]_vars

\* a second etymology was entered while a part of speech with senses was
\* open under the first: its entry is on the page and nothing is pending
C14_Witness ==
    /\ mode = "lifo" /\ pc = "walk"
    /\ Len(log) = 3
    /\ Classify(log[2].t) = "pos" /\ Classify(log[3].t) = "etymology"
    /\ Len(page_datas) = 1
    /\ page_datas[1]["etymology_number"] = 1
    /\ Len(page_datas[1]["senses"]) = 2
    /\ pos_datas = <<>> /\ etym_datas = <<>> /\ subsection = NoTitle

-----------------------------------------------------------------------------
(* SpecOther: pages whose headings are the other sections (pronunciation,
   translations, linkage, inflection, descendants) among an etymology and a
   part of speech *)

OtherHeadings == 3      \* headings of a page of SpecOther

OtherTitles == {Title("etymology", 0), Title("noun", 0),
                Title("pronunciation", 0), Title("pronunciation", 2),
                GluedTitle("pronunciation", 2), Title("translations", 0),
                Title("synonyms", 0), Title("synonyms", 2),
                Title("declension", 0), Title("descendants", 0),
                Title("foo", 0)}

OtherHeading ==
    /\ nhead < OtherHeadings
    /\ \E t \in OtherTitles :
           Heading(t, LevelOf(t),
                   IF Classify(t) = "pos" THEN FlatSec(nhead + 1, 1)
                   ELSE NoSec)

OtherFinish == Finish

InitOther ==
    /\ pc = "walk"
    /\ mode = "other"
    /\ aux = <<>>
    /\ InitWalker

NextOther == OtherHeading \/ OtherFinish

SpecOther == InitOther /\ [][NextOther]_vars

OtherKinds == {"pronunciation", "translations", "linkage", "inflection",
               "descendants"}

\* the step handles a heading of one of the other sections
OtherEntered ==
    /\ Len(log') = Len(log) + 1
    /\ Classify(log'[Len(log')].t) \in OtherKinds

ScopesKept ==
    /\ Len(page_datas') = Len(page_datas)
    /\ Len(etym_datas') = Len(etym_datas)
    /\ Len(pos_datas') = Len(pos_datas)
    /\ DOMAIN pos_data \subseteq DOMAIN pos_data'
    /\ DOMAIN etym_data \subseteq DOMAIN etym_data'
    /\ subsection' = subsection

\* C15 as stated: a heading classified as pronunciation, translations,
\* linkage, inflection or descendants, numbered or not, leaves the three
\* lists at their lengths, leaves pos_data and etym_data with their keys and
\* leaves the open part of speech open
C15_OtherSectionsKeepScopes ==
    [][mode = "other" /\ OtherEntered => ScopesKept]_vars

\* C15 amended: that holds for every such heading but a pronunciation heading
\* whose title ends in whitespace and a number ("Pronunciation 2"), which
\* flushes the part of speech and the etymology as an etymology heading does
C15_OnlyNumberedPronunciationFlushes ==
    [][mode = "other" /\ OtherEntered =>
        LET t == log'[Len(log')].t
        IN IF t.base \in OtherPronunciation /\ t.num # 0 /\ ~t.glued
           THEN /\ page_datas' = FlushedPage
                /\ pos_datas' = <<>> /\ etym_datas' = <<>>
                /\ pos_data' = EmptyDict /\ etym_data' = EmptyDict
                /\ subsection' = NoTitle
           ELSE ScopesKept]_vars

\* "Pronunciation 2" was entered under an open noun: the noun is on the page
C15_Witness ==
    /\ mode = "other" /\ pc = "walk"
    /\ Len(log) = 2
    /\ log[1].t = Title("noun", 0)
    /\ log[2].t = Title("pronunciation", 2)
    /\ Len(page_datas) = 1 /\ page_datas[1]["pos"] = "noun"
    /\ pos_datas = <<>> /\ subsection = NoTitle

-----------------------------------------------------------------------------
(* SpecClassify: the classification of one heading title under
   configurations whose tables share titles *)

MaxExtra == 1           \* titles a table holds beside its own

\* the titles a configuration may list in more than one table ("idiom" is a
\* part of speech and a linkage in zh/section_titles.py lines 31 and 209)
SharedNames == {"idiom", "etymology", "pronunciation", "translations",
                "descendants", "references", "declension", "compounds"}

ExtraTitles == {x \in SUBSET SharedNames : Cardinality(x) <= MaxExtra}

ClassifyTitles ==
    {Title(b, n) : b \in SharedNames \cup {"noun", "synonyms"}, n \in {0, 2}}
    \cup {GluedTitle("idiom", 2)}

InitClassify ==
    /\ pc = "title"
    /\ mode = "classify"
    /\ \E p \in ExtraTitles : \E l \in ExtraTitles : \E t \in ClassifyTitles :
           aux = [pos_titles |-> DOMAIN POS_SUBTITLES \cup p,
                  linkage_titles |-> DOMAIN LINKAGE_SUBTITLES \cup l,
                  t |-> t, kind |-> ""]
    /\ InitWalker

\* lines 2914-3004: the branch taken for the title
ClassifyTitle ==
    /\ mode = "classify"
    /\ pc = "title"
    /\ aux' = [aux EXCEPT !.kind =
                  ClassifyWith(aux.t, aux.pos_titles, aux.linkage_titles)]
    /\ pc' = "classified"
    /\ UNCHANGED <<mode, stack, subsection, base_data, etym_data, pos_data,
                   sense_data, pos_datas, etym_datas, page_datas, have_etym,
                   shared, warned, gta, ret, nhead, log, section_counts>>

NextClassify == ClassifyTitle

SpecClassify == InitClassify /\ [][NextClassify]_vars

\* the title without its trailing number is a key of the table
InTable(t, titles) ==
    t_no_number(t).num = 0 /\ t_no_number(t).base \in titles

\* the title passes the test of one of the other sections
OtherKindOf(t) ==
    IF t.base \in OtherPronunciation THEN "pronunciation"
    ELSE IF t.base \in OtherEtymology THEN "etymology"
    ELSE IF t = Title(OtherDescendants, 0) THEN "descendants"
    ELSE IF t = Title(OtherTranslations, 0) THEN "translations"
    ELSE IF t.num = 0 /\ t.base \in OtherIgnored THEN "ignored"
    ELSE IF t.num = 0 /\ t.base \in OtherInflection THEN "inflection"
    ELSE IF t_no_number(t) = Title(OtherCompounds, 0) THEN "compounds"
    ELSE "none"

\* C16 as stated: a title of the part-of-speech table is a part of speech
\* whatever else it matches, and a title of the linkage table that is no part
\* of speech is a linkage whatever other section it matches
C16_PosThenLinkageThenOther ==
    mode = "classify" /\ pc = "classified" =>
        /\ InTable(aux.t, aux.pos_titles) => aux.kind = "pos"
        /\ InTable(aux.t, aux.linkage_titles)
               /\ ~InTable(aux.t, aux.pos_titles) => aux.kind = "linkage"

\* C16 amended: the pronunciation, etymology, descendants, translations,
\* ignored and inflection tests come first, in that order; among the titles
\* that pass none of them the part-of-speech table goes before the linkage
\* table, and the linkage table before the compounds title
C16_OtherThenPosThenLinkage ==
    mode = "classify" /\ pc = "classified" =>
        LET other == OtherKindOf(aux.t)
        IN IF other \notin {"none", "compounds"} THEN aux.kind = other
           ELSE IF InTable(aux.t, aux.pos_titles) THEN aux.kind = "pos"
           ELSE IF InTable(aux.t, aux.linkage_titles)
           THEN aux.kind = "linkage"
           ELSE aux.kind = IF other = "compounds" THEN other ELSE "unknown"

\* "Idiom 2" under a configuration that has "idiom" in both tables is a
\* part of speech
C16_Witness ==
    /\ mode = "classify" /\ pc = "classified"
    /\ aux.t = Title("idiom", 2)
    /\ "idiom" \in aux.pos_titles /\ "idiom" \in aux.linkage_titles
    /\ aux.kind = "pos"

-----------------------------------------------------------------------------
(* The scope select_data gives the handler of a heading *)

\* the step handles a heading whose branch calls select_data
DataSelected ==
    /\ Len(log') = Len(log) + 1
    /\ log'[Len(log')].data # "none"

\* the heading of the step closes every scope before it selects
FlushesFirst ==
    /\ Classify(log'[Len(log')].t) = "pronunciation"
    /\ Numbered(log'[Len(log')].t)

PosOpen == subsection # NoTitle /\ ~FlushesFirst

\* an etymology heading was entered and push_etym was not called since
EtymOpen == Has(etym_data, "etymology_text") /\ ~FlushesFirst

\* the heading of the step is a direct child of the language heading
UnderLanguage == stack'[Len(stack') - 1].t = Language

\* C17 as stated: the part-of-speech scope when one is open; else the
\* etymology scope when an etymology heading was entered and is not closed;
\* the base scope only when neither is open
C17_SelectByOpenScope ==
    [][mode = "other" /\ DataSelected =>
        /\ PosOpen => log'[Len(log')].data = "pos_data"
        /\ ~PosOpen /\ EtymOpen => log'[Len(log')].data = "etym_data"
        /\ log'[Len(log')].data = "base_data" => ~PosOpen /\ ~EtymOpen]_vars

\* C17 amended: the part-of-speech scope when one is open; else the base
\* scope when the heading is a direct child of the language heading, whether
\* or not an etymology is open; else the etymology scope
C17_SelectByParent ==
    [][mode = "other" /\ DataSelected =>
        /\ PosOpen => log'[Len(log')].data = "pos_data"
        /\ ~PosOpen /\ UnderLanguage => log'[Len(log')].data = "base_data"
        /\ ~PosOpen /\ ~UnderLanguage =>
               log'[Len(log')].data = "etym_data"]_vars

\* a pronunciation heading beside an etymology heading, both children of the
\* language heading: the base scope is selected while the etymology is open
C17_Witness ==
    /\ mode = "other" /\ pc = "walk"
    /\ Len(log) = 2
    /\ Classify(log[1].t) = "etymology"
    /\ log[2].t = Title("pronunciation", 0)
    /\ log[2].data = "base_data"
    /\ Has(etym_data, "etymology_text")
    /\ subsection = NoTitle

-----------------------------------------------------------------------------
(* base_data during the walk *)

\* C18 as stated: base_data has the content parse_language gave it at every
\* step of the walk
C18_BaseDataNeverChanges ==
    [][mode = "other" => base_data' = base_data]_vars

\* C18 amended: a handler changes base_data only when select_data gave it the
\* base scope (its heading is a direct child of the language heading and no
\* part of speech is open), and then it only adds list items: no key is
\* removed, word, lang and lang_code keep their values
C18_BaseDataOnlyGrowsWhenSelected ==
    [][mode = "other" =>
        /\ \A k \in DOMAIN base_data :
               /\ k \in DOMAIN base_data'
               /\ IF k \in ListKeys
                  THEN SubSeq(base_data'[k], 1, Len(base_data[k]))
                           = base_data[k]
                  ELSE base_data'[k] = base_data[k]
        /\ base_data' # base_data =>
               /\ DataSelected
               /\ log'[Len(log')].data = "base_data"
               /\ UnderLanguage /\ ~PosOpen]_vars

\* a descendants section right under the language heading has put its list
\* into base_data
C18_Witness ==
    /\ mode = "other" /\ pc = "walk"
    /\ Len(log) >= 1
    /\ log[1].t = Title("descendants", 0)
    /\ log[1].data = "base_data"
    /\ Has(base_data, "descendants")
    /\ base_data["word"] = "Foo"

-----------------------------------------------------------------------------
(* Examples of a gloss item whose sub-items pushed senses *)

\* the page Language > Noun > [item] has been parsed; the item has a text,
\* an example of its own and plain sub-items, each of which pushed a sense
C19Case ==
    /\ mode = "pos"
    /\ pc = "done"
    /\ Len(log) = 1
    /\ log[1].sec.kind = "lists"
    /\ log[1].sec.htags = <<>>
    /\ Len(log[1].sec.items) = 1
    /\ log[1].sec.items[1].text.k = "plain"
    /\ log[1].sec.items[1].text.g # 0
    /\ log[1].sec.items[1].ex # <<>>
    /\ Len(log[1].sec.items[1].subs) >= 1
    /\ \A i \in 1..Len(log[1].sec.items[1].subs) :
           /\ log[1].sec.items[1].subs[i].subs = <<>>
           /\ log[1].sec.items[1].subs[i].text.k = "plain"
           /\ log[1].sec.items[1].subs[i].text.g # 0

\* the senses whose glosses end with the text of a sub-item
SubItemSenses(entry, item) ==
    {i \in 1..Len(entry["senses"]) :
        \E j \in 1..Len(item.subs) :
            LET gl == Get(entry["senses"][i], "glosses", <<>>)
            IN gl # <<>> /\ gl[Len(gl)] = item.subs[j].text.g}

\* C19 as stated, for a sub-list of two items or more: the examples of the
\* outer level are on the sense pushed last by the sub-items, and every sense
\* is the sense of a sub-item
C19_ExamplesJoinLastPushedSense ==
    C19Case /\ Len(log[1].sec.items[1].subs) >= 2 =>
        LET item == log[1].sec.items[1]
            senses == ret[1]["senses"]
        IN /\ SubItemSenses(ret[1], item) = 1..Len(senses)
           /\ Get(senses[Len(senses)], "examples", <<>>) = item.ex

\* C19 amended: the examples of the outer level are on one more sense, whose
\* glosses are the outer text alone; no sense of a sub-item has them.  When
\* the sub-list has two items or more, that sense is pushed after the senses
\* of the sub-items (a single sub-item is raised to the outer level and
\* parsed after the outer item).
C19_ExamplesGetSenseOfOuterText ==
    C19Case =>
        LET item == log[1].sec.items[1]
            senses == ret[1]["senses"]
            n == Len(senses)
            outer == {i \in 1..n : Get(senses[i], "glosses", <<>>)
                                       = <<item.text.g>>}
        IN /\ Len(ret) = 1
           /\ n = Len(item.subs) + 1
           /\ Cardinality(outer) = 1
           /\ SubItemSenses(ret[1], item) = (1..n) \ outer
           /\ \A i \in 1..n :
                  Get(senses[i], "examples", <<>>) =
                      IF i \in outer THEN item.ex ELSE <<>>
           /\ Len(item.subs) >= 2 => outer = {n}

\* an item with an example and two sub-items has given three senses, the
\* third one with the example
C19_Witness ==
    /\ C19Case
    /\ Len(log[1].sec.items[1].subs) = 2
    /\ Len(ret[1]["senses"]) = 3
    /\ ret[1]["senses"][3]["examples"] = <<Example>>
    /\ ret[1]["senses"][3]["glosses"] = <<GlossId(1, 2)>>

-----------------------------------------------------------------------------
(* Sounds with a form or a pos annotation, at the merge of lines 3277-3278 *)

\* the merge of an entry that push_etym left (it has a pos, its own sounds
\* agree with that pos, its word is still to come) with a base scope that
\* holds the word
C20Case ==
    /\ mode = "merge"
    /\ pc = "merged"
    /\ Has(aux.data, "pos")
    /\ ~Has(aux.data, "word")
    /\ Has(base_data, "word")
    /\ \A s \in SeqToSet(Get(aux.data, "sounds", <<>>)) :
           Has(s, "pos") => s["pos"] = aux.data["pos"]

\* the sounds of the scopes that were merged
SourceSounds ==
    SeqToSet(Get(aux.data, "sounds", <<>>))
        \cup SeqToSet(Get(base_data, "sounds", <<>>))

\* the annotations of the sound agree with the entry
SoundMatches(s, entry) ==
    /\ Has(s, "form") =>
           \/ s["form"] = entry["word"]
           \/ \E f \in SeqToSet(Get(entry, "forms", <<>>)) :
                  f["form"] = s["form"]
    /\ Has(s, "pos") => s["pos"] = entry["pos"]

\* C20: every sound of the entry comes from a sound of the merged scopes
\* whose form annotation, if it had one, is the word or a form of the entry
\* and whose pos annotation, if it had one, is the pos of the entry
C20_AnnotatedSoundsMatchEntry ==
    C20Case =>
        \A r \in SeqToSet(Get(pos_data, "sounds", <<>>)) :
            \E s \in SourceSounds :
                /\ complementary_pop(s, "pos") = complementary_pop(r, "pos")
                /\ SoundMatches(s, pos_data)

\* the noun entry of the word Foo has the sound that the base scope holds
\* for the verb
C20_Witness ==
    /\ C20Case
    /\ aux.data = [pos |-> "noun"]
    /\ base_data = [word |-> "Foo",
                    sounds |-> <<[ipa |-> "a", pos |-> "verb"]>>]
    /\ pos_data["sounds"] = <<[ipa |-> "a"]>>

-----------------------------------------------------------------------------
(* A heading whose title no table holds *)

\* the step handles a heading that no test of process_children accepts
UnknownEntered ==
    /\ Len(log') = Len(log) + 1
    /\ Classify(log'[Len(log')].t) = "unknown"

ScopesUntouched ==
    /\ sense_data' = sense_data /\ pos_data' = pos_data
    /\ etym_data' = etym_data /\ base_data' = base_data
    /\ pos_datas' = pos_datas /\ etym_datas' = etym_datas
    /\ page_datas' = page_datas /\ subsection' = subsection

\* the headings of the page that a test accepts
KnownHeadings(lg) == SelectSeq(lg, LAMBDA e : Classify(e.t) # "unknown")

\* C21 as stated: a message is logged for the heading, and the scopes are
\* as they were
C21_UnknownHeadingIsLogged ==
    [][mode = "other" /\ UnknownEntered =>
          warned' # warned /\ ScopesUntouched]_vars

\* C21 amended: no message is logged for the heading; the scopes are as they
\* were, and the entries of the page are those of the page without the
\* heading
C21_UnknownHeadingIsTransparent ==
    [][mode = "other" =>
        /\ UnknownEntered => warned' = warned /\ ScopesUntouched
        /\ pc' = "done" => ret' = ParsedAlone(KnownHeadings(log))]_vars

\* the page Noun > Foo > Descendants was parsed: the noun has the
\* descendants that follow the heading Foo
C21_Witness ==
    /\ mode = "other" /\ pc = "done"
    /\ Len(log) = 3
    /\ log[1].t = Title("noun", 0) /\ log[2].t = Title("foo", 0)
    /\ log[3].t = Title("descendants", 0)
    /\ Len(ret) = 1
    /\ ret[1]["descendants"] = <<3>>
    /\ warned = {}

-----------------------------------------------------------------------------
(* SpecInflect: the splitting of the wikitext of an inflection section into
   one text for each top-level template (parse_inflection, lines 1833-1903).
   A text is a sequence of characters. *)

MaxText == 9            \* characters of the wikitext of a section

BraceChars == {"{", "}", "a"}

InflectionTexts == UNION {[1..n -> BraceChars] : n \in 0..MaxText}

\* the length of the run of equal characters that starts at text[i]
RECURSIVE RunLen(_, _)
RunLen(text, i) ==
    IF i < Len(text) /\ text[i + 1] = text[i] THEN 1 + RunLen(text, i + 1)
    ELSE 1

\* line 1837: re.split("({{+|}}+)", text), cur the text since the last group;
\* the texts between the groups are kept even when they are empty
RECURSIVE re_split(_, _, _)
re_split(text, i, cur) ==
    IF i > Len(text) THEN <<cur>>
    ELSE IF text[i] \in {"{", "}"} /\ RunLen(text, i) >= 2
    THEN <<cur, SubSeq(text, i, i + RunLen(text, i) - 1)>>
             \o re_split(text, i + RunLen(text, i), <<>>)
    ELSE re_split(text, i + 1, Append(cur, text[i]))

IsOpen(m) == Len(m) >= 2 /\ m[1] = "{" /\ m[2] = "{"

IsClose(m) == Len(m) >= 2 /\ m[1] = "}" /\ m[2] = "}"

\* the variables of the loop of lines 1856-1877: tsection as its items and
\* the flag that it has any
LoopStart ==
    [tsection |-> <<>>, has |-> FALSE, template_sections |-> <<>>,
     template_nesting |-> 0, after_templates |-> FALSE, errors |-> 0]

\* fault injection: a section is started at every group of opening braces
OpenBraces_every(st, m) ==
    [st EXCEPT
          !.template_sections = IF st.after_templates
                                THEN Append(@, st.tsection) ELSE @,
          !.tsection = IF st.after_templates THEN m ELSE @ \o m,
          !.has = TRUE,
          !.after_templates = TRUE,
          !.template_nesting = @ + Len(m)]

\* lines 1857-1865
OpenBraces(st, m) ==
    LET starts == st.template_nesting = 0 /\ st.after_templates
    IN [st EXCEPT
          !.template_sections = IF starts THEN Append(@, st.tsection) ELSE @,
          !.tsection = IF starts THEN m ELSE @ \o m,
          !.has = TRUE,
          !.after_templates = TRUE,
          !.template_nesting = @ + Len(m)]

\* lines 1866-1874, the braces close no more than is open
CloseBraces(st, m) ==
    [st EXCEPT !.template_nesting = @ - Len(m),
               !.tsection = @ \o m,
               !.has = TRUE]

\* lines 1867-1873: the nesting becomes negative, an error is logged and the
\* loop is left
NegativeNesting(st, m) ==
    [st EXCEPT !.template_nesting = @ - Len(m),
               !.errors = @ + 1,
               !.template_sections = <<>>]

\* lines 1856-1877: the loop over brace_matches from ms on
RECURSIVE SplitLoop(_, _)
SplitLoop(ms, st) ==
    IF ms = <<>> THEN st
    ELSE IF IsOpen(Head(ms)) THEN SplitLoop(Tail(ms), OpenBraces(st, Head(ms)))
    ELSE IF IsClose(Head(ms))
    THEN IF st.template_nesting - Len(Head(ms)) < 0
         THEN NegativeNesting(st, Head(ms))
         ELSE SplitLoop(Tail(ms), CloseBraces(st, Head(ms)))
    ELSE SplitLoop(Tail(ms),
                   [st EXCEPT !.tsection = @ \o Head(ms), !.has = TRUE])

\* lines 1878-1879: the dangling tsection
Dangling(st) ==
    IF st.has THEN [st EXCEPT !.template_sections = Append(@, st.tsection)]
    ELSE st

\* lines 1855-1879
SplitSections(brace_matches) ==
    IF Len(brace_matches) > 1 THEN Dangling(SplitLoop(brace_matches, LoopStart))
    ELSE LoopStart

\* fault injection: the test of the nesting of line 1891 is left out
TextsOf_sections(text, st) ==
    [texts |-> IF st.template_sections = <<>> THEN <<text>>
               ELSE st.template_sections,
     errors |-> st.errors + (IF st.template_nesting # 0 THEN 1 ELSE 0),
     template_nesting |-> st.template_nesting]

\* lines 1886-1899: the texts handed to the parser, and the errors logged
TextsOf(text, st) ==
    [texts |-> IF st.template_nesting # 0 \/ st.template_sections = <<>>
               THEN <<text>>
               ELSE st.template_sections,
     errors |-> st.errors + (IF st.template_nesting # 0 THEN 1 ELSE 0),
     template_nesting |-> st.template_nesting]

split_inflection(text) == TextsOf(text, SplitSections(re_split(text, 1, <<>>)))

\* lines 1900-1919: every text is parsed and given to
\* parse_inflection_section
InflectSplit ==
    /\ mode = "inflect"
    /\ pc = "text"
    /\ aux' = [aux EXCEPT !.texts = split_inflection(aux.text).texts,
                          !.errors = split_inflection(aux.text).errors,
                          !.parsed = split_inflection(aux.text).texts]
    /\ pc' = "parsed"
    /\ UNCHANGED <<mode, stack, subsection, base_data, etym_data, pos_data,
                   sense_data, pos_datas, etym_datas, page_datas, have_etym,
                   shared, warned, gta, ret, nhead, log, section_counts>>

InitInflect ==
    /\ pc = "text"
    /\ mode = "inflect"
    /\ \E text \in InflectionTexts :
           aux = [text |-> text, texts |-> <<>>, parsed |-> <<>>, errors |-> 0]
    /\ InitWalker

NextInflect == InflectSplit

SpecInflect == InitInflect /\ [][NextInflect]_vars

\* the nesting depth after each group of braces of the text
RECURSIVE Depths(_, _)
Depths(ms, d) ==
    IF ms = <<>> THEN <<>>
    ELSE IF IsOpen(Head(ms))
    THEN <<d + Len(Head(ms))>> \o Depths(Tail(ms), d + Len(Head(ms)))
    ELSE IF IsClose(Head(ms))
    THEN <<d - Len(Head(ms))>> \o Depths(Tail(ms), d - Len(Head(ms)))
    ELSE Depths(Tail(ms), d)

DepthsOf(text) == Depths(re_split(text, 1, <<>>), 0)

GoesNegative(text) == \E i \in 1..Len(DepthsOf(text)) : DepthsOf(text)[i] < 0

\* C22 as stated: when the nesting becomes negative an error is logged and
\* nothing of the section is given to the inflection parser
C22_NegativeNestingAbortsSection ==
    mode = "inflect" /\ pc = "parsed" /\ GoesNegative(aux.text) =>
        aux.errors >= 1 /\ aux.parsed = <<>>

\* C22 amended: when the nesting becomes negative two errors are logged (that
\* of line 1868 and that of line 1891) and the splitting alone is given up:
\* the whole text of the section is given to the inflection parser as one
\* piece
C22_NegativeNestingParsesWholeText ==
    mode = "inflect" /\ pc = "parsed" /\ GoesNegative(aux.text) =>
        aux.errors = 2 /\ aux.parsed = <<aux.text>>

\* "{{a}}}}{{": a template, then braces that close more than is open
C22_Witness ==
    /\ mode = "inflect" /\ pc = "parsed"
    /\ aux.text = <<"{", "{", "a", "}", "}", "}", "}", "a">>
    /\ aux.errors = 2
    /\ aux.parsed = <<aux.text>>

-----------------------------------------------------------------------------
(* The pieces of the splitter *)

RECURSIVE Concat(_)
Concat(pieces) ==
    IF pieces = <<>> THEN <<>> ELSE Head(pieces) \o Concat(Tail(pieces))

\* the depth is never negative and is zero at the end
Balanced(text) ==
    /\ ~GoesNegative(text)
    /\ DepthsOf(text) # <<>> => DepthsOf(text)[Len(DepthsOf(text))] = 0

\* the groups of opening braces met at depth zero
RECURSIVE TopLevel(_, _)
TopLevel(ms, d) ==
    IF ms = <<>> THEN 0
    ELSE IF IsOpen(Head(ms))
    THEN (IF d = 0 THEN 1 ELSE 0) + TopLevel(Tail(ms), d + Len(Head(ms)))
    ELSE IF IsClose(Head(ms)) THEN TopLevel(Tail(ms), d - Len(Head(ms)))
    ELSE TopLevel(Tail(ms), d)

TopLevelTemplates(text) == TopLevel(re_split(text, 1, <<>>), 0)

\* C30 as stated: the pieces, concatenated, are the text; a balanced text
\* gives pieces of exactly one top-level template each, any other text gives
\* the text itself as the only piece
C30_EveryPieceHasOneTemplate ==
    mode = "inflect" /\ pc = "parsed" =>
        /\ Concat(aux.texts) = aux.text
        /\ IF Balanced(aux.text)
           THEN \A i \in 1..Len(aux.texts) :
                    TopLevelTemplates(aux.texts[i]) = 1
           ELSE aux.texts = <<aux.text>>

\* C30 amended: as stated for the texts that hold a template; a text with no
\* group of two braces or more is balanced and is its own only piece, which
\* holds no template
C30_PiecesPartitionText ==
    mode = "inflect" /\ pc = "parsed" =>
        /\ Concat(aux.texts) = aux.text
        /\ IF Balanced(aux.text) /\ TopLevelTemplates(aux.text) > 0
           THEN /\ Len(aux.texts) = TopLevelTemplates(aux.text)
                /\ \A i \in 1..Len(aux.texts) :
                       TopLevelTemplates(aux.texts[i]) = 1
           ELSE aux.texts = <<aux.text>>

\* "{{}}{{}}" is split into its two templates
C30_Witness ==
    /\ mode = "inflect" /\ pc = "parsed"
    /\ aux.text = <<"{", "{", "}", "}", "{", "{", "}", "}">>
    /\ aux.texts = <<SubSeq(aux.text, 1, 4), SubSeq(aux.text, 5, 8)>>

-----------------------------------------------------------------------------
(* SpecLevels: fix_subtitle_hierarchy on one heading line.  A heading is its
   title, the numbers of "=" on its left and on its right, and whether the
   title is written as a link ("[[Noun]]"). *)

LevelTitles ==
    {Language, Title("foo", 0), GluedTitle("noun", 2)}
    \cup {Title(b, n) : b \in {"etymology", "pronunciation", "noun",
                               "translations", "synonyms", "compounds",
                               "declension", "descendants", "references"},
                        n \in {0, 2}}

HeadingLines ==
    [t : LevelTitles, left : 2..6, right : 2..6, linked : BOOLEAN]

\* lines 3366-3417: the heading line written for the heading line hl
fix_subtitle_hierarchy(hl) ==
    [t |-> hl.t, left |-> LevelOf(hl.t), right |-> LevelOf(hl.t),
     linked |-> FALSE]

InitLevels ==
    /\ pc = "text"
    /\ mode = "levels"
    /\ \E hl \in HeadingLines : aux = [old |-> hl, once |-> hl, twice |-> hl]
    /\ InitWalker

\* parse_page, line 3455
FixLevels ==
    /\ mode = "levels"
    /\ pc = "text"
    /\ aux' = [aux EXCEPT !.once = fix_subtitle_hierarchy(aux.old)]
    /\ pc' = "fixed"
    /\ UNCHANGED <<mode, stack, subsection, base_data, etym_data, pos_data,
                   sense_data, pos_datas, etym_datas, page_datas, have_etym,
                   shared, warned, gta, ret, nhead, log, section_counts>>

\* the function applied to its own output
FixLevelsAgain ==
    /\ mode = "levels"
    /\ pc = "fixed"
    /\ aux' = [aux EXCEPT !.twice = fix_subtitle_hierarchy(aux.once)]
    /\ pc' = "fixed twice"
    /\ UNCHANGED <<mode, stack, subsection, base_data, etym_data, pos_data,
                   sense_data, pos_datas, etym_datas, page_datas, have_etym,
                   shared, warned, gta, ret, nhead, log, section_counts>>

NextLevels == FixLevels \/ FixLevelsAgain

SpecLevels == InitLevels /\ [][NextLevels]_vars

FifthLevelKinds == {"translations", "linkage", "compounds", "inflection",
                    "descendants", "ignored"}

\* C23 as stated: a language heading is at level 2, an etymology or
\* pronunciation heading at level 3, a heading the walker takes for a part of
\* speech at level 4, numbered or not, a translations, linkage, compounds,
\* inflection, descendants or ignored heading at level 5; a second
\* application changes nothing
C23_LevelFollowsWalkerKind ==
    mode = "levels" /\ pc # "text" =>
        /\ aux.old.t = Language => aux.once.left = 2
        /\ Classify(aux.old.t) \in {"etymology", "pronunciation"} =>
               aux.once.left = 3
        /\ Classify(aux.old.t) = "pos" => aux.once.left = 4
        /\ Classify(aux.old.t) \in FifthLevelKinds => aux.once.left = 5
        /\ pc = "fixed twice" => aux.twice = aux.once

\* C23 amended: the tables are looked up with the whole title, so that holds
\* for the titles with no trailing number; a part-of-speech, linkage or
\* compounds title with a trailing number ("Noun 2") is at level 6, as is any
\* title of no table
C23_LevelFollowsWholeTitle ==
    mode = "levels" /\ pc # "text" =>
        /\ aux.once.right = aux.once.left
        /\ aux.old.t = Language => aux.once.left = 2
        /\ Classify(aux.old.t) \in {"etymology", "pronunciation"} =>
               aux.once.left = 3
        /\ Classify(aux.old.t) = "pos" =>
               aux.once.left = IF aux.old.t.num = 0 THEN 4 ELSE 6
        /\ Classify(aux.old.t) \in FifthLevelKinds =>
               aux.once.left = IF aux.old.t.num = 0 THEN 5 ELSE 6
        /\ aux.old.t # Language /\ Classify(aux.old.t) = "unknown" =>
               aux.once.left = 6
        /\ pc = "fixed twice" => aux.twice = aux.once

\* "===Noun 2===" was rewritten as a heading of level 6, twice
C23_Witness ==
    /\ mode = "levels" /\ pc = "fixed twice"
    /\ aux.old = [t |-> Title("noun", 2), left |-> 3, right |-> 3,
                  linked |-> FALSE]
    /\ aux.once.left = 6
    /\ aux.twice = aux.once

-----------------------------------------------------------------------------
(* SpecTwice: one of push_sense, push_pos and push_etym called twice in a
   row on the scopes of parse_language.  aux remembers the call (op), the
   scopes before the first call (start) and after it (first). *)

PushOps == {"push_sense", "push_pos", "push_etym"}

Push(op, s) ==
    CASE op = "push_sense" -> push_sense(s)
      [] op = "push_pos" -> push_pos(s)
      [] op = "push_etym" -> push_etym(s)

TwiceSense == [glosses |-> <<1>>]
TwiceEntry == [senses |-> <<[glosses |-> <<3>>]>>, pos |-> "verb"]

\* the scopes as the walker can leave them: a sense list, data of a part of
\* speech and a scratch sense with a gloss only inside a part of speech,
\* entries of the page only after a push_etym
InitTwice ==
    /\ pc = "build"
    /\ mode = "twice"
    /\ stack = <<LangFrame>>
    /\ subsection \in {NoTitle, Title("noun", 0)}
    /\ base_data = [word |-> "Foo", lang |-> "Lang", lang_code |-> "xx"]
    /\ etym_data \in {EmptyDict, FormOfEtymology}
    /\ pos_data \in {EmptyDict, [pos |-> "noun"]}
    /\ sense_data \in {EmptyDict, TwiceSense, [tags |-> <<"participle">>],
                       [tags |-> <<"no-gloss">>]}
    /\ pos_datas \in {<<>>, <<[glosses |-> <<2>>]>>}
    /\ etym_datas \in {<<>>, <<TwiceEntry>>}
    /\ page_datas \in {<<>>, <<TwiceEntry>>}
    /\ have_etym \in BOOLEAN
    /\ subsection = NoTitle =>
           /\ pos_data = EmptyDict
           /\ pos_datas = <<>>
           /\ ~PushSenseFires(sense_data)
    /\ page_datas # <<>> => have_etym
    /\ shared = {}
    /\ warned = {}
    /\ gta = {}
    /\ ret = <<>>
    /\ nhead = 0
    /\ log = <<>>
    /\ section_counts = EmptyDict
    /\ aux = [op |-> "none", start |-> S, first |-> S]

TwiceFirst ==
    /\ mode = "twice"
    /\ pc = "build"
    /\ \E op \in PushOps :
           /\ Commit(Push(op, S))
           /\ aux' = [op |-> op, start |-> S, first |-> Push(op, S)]
    /\ pc' = "once"
    /\ UNCHANGED <<mode, stack, ret, nhead, log, section_counts>>

TwiceSecond ==
    /\ mode = "twice"
    /\ pc = "once"
    /\ Commit(Push(aux.op, S))
    /\ pc' = "twice"
    /\ UNCHANGED <<mode, stack, ret, nhead, log, section_counts, aux>>

NextTwice == TwiceFirst \/ TwiceSecond

SpecTwice == InitTwice /\ [][NextTwice]_vars

\* C24: a second call of push_sense, push_pos or push_etym right after the
\* first leaves the sense list, the pending list, the page list and every
\* scope as the first call left them; the first push_pos adds at most one
\* entry to the pending list
C24_SecondPushChangesNothing ==
    mode = "twice" =>
        /\ pc = "twice" => S = aux.first
        /\ pc # "build" /\ aux.op = "push_pos" =>
               Len(aux.first.etym_datas) <= Len(aux.start.etym_datas) + 1
        /\ pc # "build" /\ aux.op = "push_sense" =>
               /\ Len(aux.first.pos_datas) <= Len(aux.start.pos_datas) + 1
               /\ aux.first.etym_datas = aux.start.etym_datas
               /\ aux.first.page_datas = aux.start.page_datas

\* push_pos was called twice in a section with a gloss: the first call
\* added the entry, the second added nothing
C24_Witness ==
    /\ mode = "twice" /\ pc = "twice"
    /\ aux.op = "push_pos"
    /\ aux.start.subsection # NoTitle
    /\ aux.start.sense_data = TwiceSense
    /\ Len(aux.first.etym_datas) = Len(aux.start.etym_datas) + 1
    /\ etym_datas = aux.first.etym_datas

-----------------------------------------------------------------------------
(* SpecTop: the loop of parse_page over the top-level nodes of the parsed
   page (tree.children).  A node is the record [kind, name, arg, n]: a
   string of text (kind "text"), a template with its name and first
   argument, a link, a heading of level 2 with the name of its language and
   the number n of entries parse_language returns for it, or a heading of
   another level.  aux holds the nodes, the index of the next one, top_data,
   the entries collected (by_lang, in the order collected) and the value
   returned. *)

MaxNodes == 3

TopNode(kind, name, arg, n) ==
    [kind |-> kind, name |-> name, arg |-> arg, n |-> n]

TopNodes ==
    {TopNode("text", "", "", 0), TopNode("LINK", "", "", 0),
     TopNode("LEVEL3", "", "", 0),
     TopNode("TEMPLATE", "wikipedia", "Bar", 0),
     TopNode("TEMPLATE", "wikidata", "Q1", 0),
     TopNode("TEMPLATE", "wikidata", "x", 0),
     TopNode("TEMPLATE", "also", "bar", 0)}
    \cup {TopNode("LEVEL2", lg, "", n) : lg \in {"English", "Finnish"},
                                         n \in {1, 2}}

TopChildren == UNION {[1..n -> TopNodes] : n \in 0..MaxNodes}

\* lines 3307-3352 and 3291-3304: what a top-level template leaves in data
parse_top_template(node, data) ==
    IF node.name = "wikipedia"
    THEN data_append(data, "wikipedia", node.arg)
    ELSE IF node.name = "wikidata" /\ node.arg = "Q1"
    THEN data_append(data, "wikidata", node.arg)
    ELSE data

\* line 3495: the entries parse_language returns for a language heading
LanguageEntries(node) ==
    [j \in 1..node.n |->
        [lang |-> node.name, word |-> "Foo",
         pos |-> IF j = 1 THEN "noun" ELSE "verb"]]

ExtendKeys(data, top, ks) ==
    [k \in DOMAIN data \cup ks |->
        IF k \in ks THEN Get(data, k, <<>>) \o top[k] ELSE data[k]]

\* fault injection: the top-level data is not copied to the entries
WithTopData_skipped(datas, top) == datas

\* lines 3499-3508: every value of top_data joins every entry
WithTopData(datas, top) ==
    [j \in 1..Len(datas) |-> ExtendKeys(datas[j], top, DOMAIN top)]

RECURSIVE GroupByLang(_)
\* lines 3509 and 3515-3548: the entries grouped by language, the languages
\* in the order they were first met
GroupByLang(datas) ==
    IF datas = <<>> THEN <<>>
    ELSE SelectSeq(datas, LAMBDA d : d.lang = datas[1].lang)
         \o GroupByLang(SelectSeq(datas, LAMBDA d : d.lang # datas[1].lang))

InitTop ==
    /\ pc = "top"
    /\ mode = "top"
    /\ \E ch \in TopChildren :
           aux = [children |-> ch, i |-> 1, top_data |-> EmptyDict,
                  by_lang |-> <<>>, ret |-> <<>>]
    /\ InitWalker

TopNext == aux.children[aux.i]

\* lines 3470-3471, 3475-3477 and 3478-3482: a node that is skipped
TopSkip ==
    /\ mode = "top" /\ pc = "top"
    /\ aux.i <= Len(aux.children)
    /\ TopNext.kind \in {"text", "LINK", "LEVEL3"}
    /\ aux' = [aux EXCEPT !.i = @ + 1]
    /\ UNCHANGED <<pc, mode, stack, subsection, base_data, etym_data,
                   pos_data, sense_data, pos_datas, etym_datas, page_datas,
                   have_etym, shared, warned, gta, ret, nhead, log,
                   section_counts>>

\* lines 3472-3474
TopTemplate ==
    /\ mode = "top" /\ pc = "top"
    /\ aux.i <= Len(aux.children)
    /\ TopNext.kind = "TEMPLATE"
    /\ aux' = [aux EXCEPT !.i = @ + 1,
                          !.top_data = parse_top_template(TopNext, @)]
    /\ UNCHANGED <<pc, mode, stack, subsection, base_data, etym_data,
                   pos_data, sense_data, pos_datas, etym_datas, page_datas,
                   have_etym, shared, warned, gta, ret, nhead, log,
                   section_counts>>

\* lines 3483-3509
TopLanguage ==
    /\ mode = "top" /\ pc = "top"
    /\ aux.i <= Len(aux.children)
    /\ TopNext.kind = "LEVEL2"
    /\ aux' = [aux EXCEPT !.i = @ + 1,
                          !.by_lang = @ \o WithTopData(LanguageEntries(TopNext),
                                                       aux.top_data)]
    /\ UNCHANGED <<pc, mode, stack, subsection, base_data, etym_data,
                   pos_data, sense_data, pos_datas, etym_datas, page_datas,
                   have_etym, shared, warned, gta, ret, nhead, log,
                   section_counts>>

\* lines 3515-3561: the entries have no conjugation and no topics, and their
\* word is the title of the page
TopReturn ==
    /\ mode = "top" /\ pc = "top"
    /\ aux.i > Len(aux.children)
    /\ aux' = [aux EXCEPT !.ret = GroupByLang(aux.by_lang)]
    /\ pc' = "done"
    /\ UNCHANGED <<mode, stack, subsection, base_data, etym_data,
                   pos_data, sense_data, pos_datas, etym_datas, page_datas,
                   have_etym, shared, warned, gta, ret, nhead, log,
                   section_counts>>

NextTop == TopSkip \/ TopTemplate \/ TopLanguage \/ TopReturn

SpecTop == InitTop /\ [][NextTop]_vars

HasAll(entry, top) ==
    \A k \in DOMAIN top :
        \A j \in 1..Len(top[k]) : InSeq(top[k][j], Get(entry, k, <<>>))

\* C25: every entry parse_page returns holds every value collected from the
\* top-level templates of the page, whether the template comes before or
\* after the heading of the entry's language
C25_EveryEntryHasAllTopData ==
    mode = "top" /\ pc = "done" =>
        \A e \in 1..Len(aux.ret) : HasAll(aux.ret[e], aux.top_data)

\* a page whose top-level nodes are the English section and then a
\* wikipedia template: the entry is returned without the value collected
C25_Witness ==
    /\ mode = "top" /\ pc = "done"
    /\ aux.children = <<TopNode("LEVEL2", "English", "", 1),
                        TopNode("TEMPLATE", "wikipedia", "Bar", 0)>>
    /\ aux.top_data = [wikipedia |-> <<"Bar">>]
    /\ aux.ret = <<[lang |-> "English", word |-> "Foo", pos |-> "noun"]>>

RECURSIVE TopDataBefore(_, _)
\* top_data when the loop reaches the node i of the nodes ch
TopDataBefore(ch, i) ==
    IF i <= 1 THEN EmptyDict
    ELSE IF ch[i - 1].kind = "TEMPLATE"
    THEN parse_top_template(ch[i - 1], TopDataBefore(ch, i - 1))
    ELSE TopDataBefore(ch, i - 1)

OnlySection(ch, i) ==
    /\ ch[i].kind = "LEVEL2"
    /\ \A j \in 1..Len(ch) : j # i => ch[j].name # ch[i].name

\* C25 amended: the entries of a language section hold the values collected
\* from the top-level templates before its heading, and no others; when no
\* top-level template follows a heading, every entry returned holds every
\* value collected
C25_TopDataBeforeHeading ==
    mode = "top" /\ pc = "done" =>
        /\ \A i \in 1..Len(aux.children) :
               OnlySection(aux.children, i) =>
                   \A e \in 1..Len(aux.ret) :
                       aux.ret[e].lang = aux.children[i].name =>
                           \A k \in {"wikipedia", "wikidata"} :
                               Get(aux.ret[e], k, <<>>) =
                               Get(TopDataBefore(aux.children, i), k, <<>>)
        /\ (\A i \in 1..Len(aux.children) :
                aux.children[i].kind = "LEVEL2" =>
                    \A j \in i + 1..Len(aux.children) :
                        aux.children[j].kind # "TEMPLATE") =>
               \A e \in 1..Len(aux.ret) : HasAll(aux.ret[e], aux.top_data)

-----------------------------------------------------------------------------
(* C26 on SpecPos: the senses of the entries against the list items they
   were made from. *)

RECURSIVE ItemPaths(_, _)
\* the gloss texts from an outermost list item down to each item of the list
ItemPaths(items, prefix) ==
    UNION {{Append(prefix, items[i].text)}
           \cup ItemPaths(items[i].subs, Append(prefix, items[i].text)) :
               i \in 1..Len(items)}

SectionPaths(sec) ==
    IF sec.kind = "text" THEN {<<sec.text>>}
    ELSE ItemPaths(sec.items, <<>>)

PagePaths == UNION {SectionPaths(log[i].sec) : i \in 1..Len(log)}

RECURSIVE PathGlosses(_)
PathGlosses(path) ==
    IF path = <<>> THEN <<>>
    ELSE IF Head(path).g = 0 THEN PathGlosses(Tail(path))
    ELSE <<Head(path).g>> \o PathGlosses(Tail(path))

\* the sense holds nothing of the gloss text tx but what the path gives it
OwnData(sense, path) ==
    /\ PathGlosses(path) = Get(sense, "glosses", <<>>)
    /\ \A tx \in {QualOnlyText} :
           InSeq(tx, Get(sense, "raw_glosses", <<>>)) => InSeq(tx, path)
    /\ InSeq(QualOnlyText.q, Get(sense, "tags", <<>>)) =>
           \E i \in 1..Len(path) : path[i].q = QualOnlyText.q

ReturnedSenses ==
    UNION {{ret[e]["senses"][j] : j \in 1..Len(ret[e]["senses"])} :
               e \in 1..Len(ret)}

\* C26: what a gloss item that pushed no sense (an item whose text is only a
\* parenthesised qualifier) wrote into the scratch sense is in no sense
\* made for a later item: every sense with a gloss holds the qualifier tag
\* and the raw gloss only of its own item and of the items above it
C26_SensesHoldOnlyOwnData ==
    mode = "pos" /\ pc = "done" =>
        \A sense \in ReturnedSenses :
            Get(sense, "glosses", <<>>) # <<>> =>
                \E path \in PagePaths : OwnData(sense, path)

\* the list "# (of fruit)", "# gloss": the sense of the second item holds
\* the qualifier and the raw gloss of the first
C26_Witness ==
    /\ mode = "pos" /\ pc = "done"
    /\ \E i \in 1..Len(log) :
           /\ log[i].sec.kind = "lists"
           /\ log[i].sec.htags = <<>>
           /\ log[i].sec.items = <<Leaf(QualOnlyText),
                                   Leaf(PlainText(GlossId(i, 3)))>>
           /\ \E sense \in ReturnedSenses :
                  /\ Get(sense, "glosses", <<>>) = <<GlossId(i, 3)>>
                  /\ InSeq(QualOnlyText.q, Get(sense, "tags", <<>>))
                  /\ InSeq(QualOnlyText, Get(sense, "raw_glosses", <<>>))

-----------------------------------------------------------------------------
(* SpecTags: translate_raw_tags of the de, ru and pl extractors on one
   record.  A record is [raw_tags, tags, topics, has_tags, has_topics];
   has_topics tells whether the record has a topics field at all (a WordEntry
   or Sense has one, a Form, Sound or Linkage may not).  The tables hold a
   few entries of the tables of the source, a value always as a list; the
   Cyrillic keys of ru/tags.py are written in Latin letters.  aux holds the
   language, the record given and the record left. *)

MaxRawTags == 2

\* de/tags.py lines 287-300
DE_GRAMMATICAL_TAGS ==
    ("Nominativ" :> <<"nominative">>)
    @@ ("1. Person Singular" :> <<"first-person", "singular">>)

\* ru/tags.py lines 324-333
RU_ALL_TAGS ==
    ("vulg." :> <<"vulgar">>)
    @@ ("trad.-poet." :> <<"traditional", "poetic">>)

\* ru/tags.py lines 65-194
RU_TOPICS ==
    ("aviac." :> <<"aeronautics">>) @@ ("genet." :> <<"biology", "medicine">>)

\* ru/tags.py lines 197-212
RU_SLANG_TOPICS == ("arest." :> <<"prison">>)

\* pl/tags.py lines 7-236
PL_TAGS ==
    ("abl." :> <<"ablative">>) @@ ("dial." :> <<"dialectal">>)
    @@ ("lm" :> <<"plural">>) @@ ("m" :> <<"masculine">>)
    @@ ("lm m" :> <<"plural", "masculine">>)

\* pl/tags.py lines 239-381
PL_TOPICS == ("adm." :> <<"administration">>)

\* str.lower on the raw tags of the model
Lower(raw_tag) == IF raw_tag = "Vulg." THEN "vulg." ELSE raw_tag

\* str.split on the raw tags of the model
Split(raw_tag) ==
    CASE raw_tag = "lm m" -> <<"lm", "m">>
      [] raw_tag = "dial. foo" -> <<"dial.", "foo">>
      [] raw_tag = "foo bar" -> <<"foo", "bar">>
      [] OTHER -> <<raw_tag>>

RawTagsOf ==
    [de |-> {"Nominativ", "1. Person Singular", "foo"},
     ru |-> {"vulg.", "Vulg.", "trad.-poet.", "aviac.", "genet.", "arest.",
             "foo"},
     pl |-> {"abl.", "lm m", "adm.", "dial. foo", "foo", "foo bar"}]

\* de/tags.py lines 305-313: one raw tag; d is the record so far, whose
\* raw_tags are the ones kept
DeTag(d, raw_tag) ==
    IF raw_tag \in DOMAIN DE_GRAMMATICAL_TAGS
    THEN [d EXCEPT !.tags = @ \o DE_GRAMMATICAL_TAGS[raw_tag]]
    ELSE [d EXCEPT !.raw_tags = Append(@, raw_tag)]

\* ru/tags.py lines 345-357: the branch of a record with a topics field
RuTopic(d, low) ==
    IF low \in DOMAIN RU_TOPICS
    THEN [d EXCEPT !.topics = @ \o RU_TOPICS[low]]
    ELSE IF low \in DOMAIN RU_SLANG_TOPICS
    THEN [d EXCEPT !.tags = IF InSeq("slang", @) THEN @
                            ELSE Append(@, "slang"),
                   !.topics = @ \o RU_SLANG_TOPICS[low]]
    ELSE d

\* fault injection: a raw tag of no table is kept whatever the record
RuTag_keeps(d, raw_tag) ==
    IF Lower(raw_tag) \in DOMAIN RU_ALL_TAGS
    THEN [d EXCEPT !.tags = @ \o RU_ALL_TAGS[Lower(raw_tag)]]
    ELSE IF d.has_topics /\ RuTopic(d, Lower(raw_tag)) # d
    THEN RuTopic(d, Lower(raw_tag))
    ELSE [d EXCEPT !.raw_tags = Append(@, raw_tag)]

\* ru/tags.py lines 338-359
RuTag(d, raw_tag) ==
    IF Lower(raw_tag) \in DOMAIN RU_ALL_TAGS
    THEN [d EXCEPT !.tags = @ \o RU_ALL_TAGS[Lower(raw_tag)]]
    ELSE IF d.has_topics
    THEN RuTopic(d, Lower(raw_tag))
    ELSE [d EXCEPT !.raw_tags = Append(@, raw_tag)]

RECURSIVE AppendNew(_, _)
AppendNew(sq, values) ==
    IF values = <<>> THEN sq
    ELSE AppendNew(IF InSeq(Head(values), sq) THEN sq
                   ELSE Append(sq, Head(values)), Tail(values))

\* pl/tags.py lines 396-414: the value returned (found) and the record left
check_tag(d, raw_tag) ==
    IF raw_tag \in DOMAIN PL_TAGS /\ d.has_tags
    THEN [found |-> TRUE,
          d |-> [d EXCEPT !.tags = AppendNew(@, PL_TAGS[raw_tag])]]
    ELSE IF raw_tag \in DOMAIN PL_TOPICS /\ d.has_topics
    THEN [found |-> TRUE,
          d |-> [d EXCEPT !.topics = @ \o PL_TOPICS[raw_tag]]]
    ELSE [found |-> FALSE, d |-> d]

RECURSIVE CheckParts(_, _, _)
\* pl/tags.py lines 389-391
CheckParts(d, parts, found_tag) ==
    IF parts = <<>> THEN [found |-> found_tag, d |-> d]
    ELSE CheckParts(check_tag(d, Head(parts)).d, Tail(parts),
                    found_tag \/ check_tag(d, Head(parts)).found)

KeepUnlessFound(r, raw_tag) ==
    IF r.found THEN r.d ELSE [r.d EXCEPT !.raw_tags = Append(@, raw_tag)]

\* pl/tags.py lines 386-393
PlTag(d, raw_tag) ==
    IF check_tag(d, raw_tag).found THEN check_tag(d, raw_tag).d
    ELSE KeepUnlessFound(CheckParts(d, Split(raw_tag), FALSE), raw_tag)

TagOf(lang, d, raw_tag) ==
    CASE lang = "de" -> DeTag(d, raw_tag)
      [] lang = "ru" -> RuTag(d, raw_tag)
      [] lang = "pl" -> PlTag(d, raw_tag)

RECURSIVE TagLoop(_, _, _)
TagLoop(lang, d, raw_tags) ==
    IF raw_tags = <<>> THEN d
    ELSE TagLoop(lang, TagOf(lang, d, Head(raw_tags)), Tail(raw_tags))

\* the three functions named translate_raw_tags
translate_raw_tags(lang, data) ==
    TagLoop(lang, [data EXCEPT !.raw_tags = <<>>], data.raw_tags)

TagRecords(lang) ==
    [raw_tags : UNION {[1..n -> RawTagsOf[lang]] : n \in 0..MaxRawTags},
     tags : {<<>>} \cup (IF lang = "pl" THEN {<<"ablative">>} ELSE {}),
     topics : {<<>>},
     has_tags : {TRUE} \cup (IF lang = "pl" THEN {FALSE} ELSE {}),
     has_topics : BOOLEAN]

InitTags ==
    /\ pc = "raw"
    /\ mode = "tags"
    /\ \E lang \in {"de", "ru", "pl"} :
           \E d \in TagRecords(lang) :
               /\ ~d.has_tags => d.tags = <<>>
               /\ aux = [lang |-> lang, data |-> d, out |-> d]
    /\ InitWalker

TranslateDe ==
    /\ mode = "tags" /\ pc = "raw" /\ aux.lang = "de"
    /\ aux' = [aux EXCEPT !.out = translate_raw_tags("de", aux.data)]
    /\ pc' = "translated"
    /\ UNCHANGED <<mode, stack, subsection, base_data, etym_data, pos_data,
                   sense_data, pos_datas, etym_datas, page_datas, have_etym,
                   shared, warned, gta, ret, nhead, log, section_counts>>

TranslateRu ==
    /\ mode = "tags" /\ pc = "raw" /\ aux.lang = "ru"
    /\ aux' = [aux EXCEPT !.out = translate_raw_tags("ru", aux.data)]
    /\ pc' = "translated"
    /\ UNCHANGED <<mode, stack, subsection, base_data, etym_data, pos_data,
                   sense_data, pos_datas, etym_datas, page_datas, have_etym,
                   shared, warned, gta, ret, nhead, log, section_counts>>

TranslatePl ==
    /\ mode = "tags" /\ pc = "raw" /\ aux.lang = "pl"
    /\ aux' = [aux EXCEPT !.out = translate_raw_tags("pl", aux.data)]
    /\ pc' = "translated"
    /\ UNCHANGED <<mode, stack, subsection, base_data, etym_data, pos_data,
                   sense_data, pos_datas, etym_datas, page_datas, have_etym,
                   shared, warned, gta, ret, nhead, log, section_counts>>

NextTags == TranslateDe \/ TranslateRu \/ TranslatePl

SpecTags == InitTags /\ [][NextTags]_vars

\* the tags and topics the tables give for a raw tag or one of its parts
TableValues(lang, raw_tag) ==
    LET keys == {Lower(raw_tag)} \cup
                {Split(raw_tag)[i] : i \in 1..Len(Split(raw_tag))}
        tables == CASE lang = "de" -> {DE_GRAMMATICAL_TAGS}
                    [] lang = "ru" -> {RU_ALL_TAGS, RU_TOPICS, RU_SLANG_TOPICS}
                    [] lang = "pl" -> {PL_TAGS, PL_TOPICS}
    IN UNION {UNION {{t[k][i] : i \in 1..Len(t[k])} :
                         k \in keys \cap DOMAIN t} : t \in tables}

Contributed(lang, raw_tag, out) ==
    \E v \in TableValues(lang, raw_tag) :
        InSeq(v, out.tags) \/ InSeq(v, out.topics)

NoRawTagLost ==
    \A i \in 1..Len(aux.data.raw_tags) :
        \/ Contributed(aux.lang, aux.data.raw_tags[i], aux.out)
        \/ InSeq(aux.data.raw_tags[i], aux.out.raw_tags)

\* C28: translate_raw_tags of de, ru and pl loses no raw tag: every raw tag
\* of the record either gave a tag or a topic or is still among raw_tags,
\* whether or not the record has a topics field
C28_NoRawTagIsLost ==
    mode = "tags" /\ pc = "translated" => NoRawTagLost

\* the ru function on a record with a topics field and the raw tag "foo" of
\* no table: nothing is left of the raw tag
C28_Witness ==
    /\ mode = "tags" /\ pc = "translated" /\ aux.lang = "ru"
    /\ aux.data.has_topics
    /\ aux.data.raw_tags = <<"foo">>
    /\ aux.out.raw_tags = <<>> /\ aux.out.tags = <<>> /\ aux.out.topics = <<>>

\* the de and pl functions lose none, nor does the ru function on a record
\* with no topics field
RawTagsKeptOutsideRuTopics ==
    mode = "tags" /\ pc = "translated"
    /\ (aux.lang = "ru" => ~aux.data.has_topics) => NoRawTagLost

-----------------------------------------------------------------------------
(* SpecPron: process_pron_list_item of the fr extractor on one item of a
   pronunciation list.  The list items under the item are numbered from 1,
   the item itself; par[i] is the list item whose nested list holds the item
   i (0 for the item 1).  An item may start with a bold text, a raw tag, and
   may hold a text ": ipa" whose pronunciation is written as the number of
   the item.  aux holds the tree and the sounds returned. *)

MaxItems == 4

\* the table of fr/tags.py, which keeps the raw tags it does not hold
FR_TAGS == ("Canada" :> <<"Canada">>)

translate_raw_tags_fr(sound) ==
    [sound EXCEPT
        !.raw_tags = SelectSeq(@, LAMBDA r : r \notin DOMAIN FR_TAGS),
        !.tags = SelectSeq(sound.raw_tags, LAMBDA r : r \in DOMAIN FR_TAGS)]

PronTrees ==
    UNION {[par : {p \in [1..n -> 0..n - 1] :
                      \A i \in 1..n : IF i = 1 THEN p[i] = 0
                                      ELSE p[i] \in 1..i - 1},
            bold : [1..n -> {"", "Canada", "foo"}],
            has_ipa : [1..n -> BOOLEAN]] : n \in 1..MaxItems}

RECURSIVE Ascending(_)
Ascending(set) ==
    IF set = {} THEN <<>>
    ELSE <<CHOOSE m \in set : \A x \in set : m <= x>>
         \o Ascending(set \ {CHOOSE m \in set : \A x \in set : m <= x})

\* the items of the nested list of the item p, in the order of the page
NestedItems(par, p) == Ascending({i \in DOMAIN par : par[i] = p})

RECURSIVE Descendants(_, _)
Descendants(par, items) ==
    IF items = <<>> THEN <<>>
    ELSE <<Head(items)>>
         \o Descendants(par, NestedItems(par, Head(items)))
         \o Descendants(par, Tail(items))

\* fault injection: only the items of the item's own nested list
find_child_nested(par, p) == NestedItems(par, p)

\* WikiNode.find_child_recursively(NodeKind.LIST_ITEM) of lines 107-109:
\* every list item under the item p, at any depth
find_child_recursively(par, p) == Descendants(par, NestedItems(par, p))

\* lines 73 and 84-85
CurrentRawTags(tree, i, parent_raw_tags) ==
    IF tree.bold[i] # "" THEN Append(parent_raw_tags, tree.bold[i])
    ELSE parent_raw_tags

\* lines 94-105: the sound of the text ": ipa" of the item
TextSounds(tree, i, current_raw_tags) ==
    IF tree.has_ipa[i]
    THEN <<translate_raw_tags_fr([ipa |-> i, raw_tags |-> current_raw_tags,
                                  tags |-> <<>>])>>
    ELSE <<>>

RECURSIVE process_pron_list_item(_, _, _)
RECURSIVE NestedSounds(_, _, _)

\* lines 107-114
NestedSounds(tree, nest, current_raw_tags) ==
    IF nest = <<>> THEN <<>>
    ELSE process_pron_list_item(tree, Head(nest), current_raw_tags)
         \o NestedSounds(tree, Tail(nest), current_raw_tags)

\* lines 67-116
process_pron_list_item(tree, i, parent_raw_tags) ==
    TextSounds(tree, i, CurrentRawTags(tree, i, parent_raw_tags))
    \o NestedSounds(tree, find_child_recursively(tree.par, i),
                    CurrentRawTags(tree, i, parent_raw_tags))

InitPron ==
    /\ pc = "list"
    /\ mode = "pron"
    /\ \E tree \in PronTrees : aux = [tree |-> tree, sounds_list |-> <<>>]
    /\ InitWalker

\* extract_pronunciation, lines 26-29, for one item of the list
PronListItem ==
    /\ mode = "pron" /\ pc = "list"
    /\ aux' = [aux EXCEPT !.sounds_list =
                              process_pron_list_item(aux.tree, 1, <<>>)]
    /\ pc' = "sounds"
    /\ UNCHANGED <<mode, stack, subsection, base_data, etym_data, pos_data,
                   sense_data, pos_datas, etym_datas, page_datas, have_etym,
                   shared, warned, gta, ret, nhead, log, section_counts>>

NextPron == PronListItem

SpecPron == InitPron /\ [][NextPron]_vars

SoundsOfItem(i) ==
    {k \in 1..Len(aux.sounds_list) : aux.sounds_list[k].ipa = i}

\* C27: process_pron_list_item returns the sound of every list item under
\* the item, and of the item itself, exactly once
C27_EachSoundOnce ==
    mode = "pron" /\ pc = "sounds" =>
        \A i \in DOMAIN aux.tree.par :
            Cardinality(SoundsOfItem(i)) = IF aux.tree.has_ipa[i] THEN 1 ELSE 0

\* an item whose nested list holds an item whose nested list holds an item
\* with a pronunciation: that sound is returned twice
C27_Witness ==
    /\ mode = "pron" /\ pc = "sounds"
    /\ aux.tree.par = <<0, 1, 2>>
    /\ aux.tree.has_ipa = <<FALSE, FALSE, TRUE>>
    /\ Len(aux.sounds_list) = 2
    /\ Cardinality(SoundsOfItem(3)) = 2

-----------------------------------------------------------------------------
(* SpecEs: process_pron_graf_template and process_audio_template of the es
   extractor on the templates of one entry, in any order.  The parameters of
   a pron-graf template are a list of [key, value] with keys that differ; a
   Sound is the record [ipa, phonetic_transcription, audio, ogg_url] and a
   field that was never assigned holds Default.  An assignment to a field
   stores the value as the code gives it.  aux holds the entry, the sounds
   it had before the last call (before), the template of the last call
   (last) and of the call before it (prev), whether that call raised, and the number of calls. *)

MaxTemplates == 2

Default == "default"

NewSound ==
    [ipa |-> Default, phonetic_transcription |-> Default, audio |-> Default,
     ogg_url |-> Default]

GrafParams ==
    {[key |-> "fone", value |-> "a"], [key |-> "fone", value |-> "..."],
     [key |-> "fono", value |-> "b"], [key |-> "2fone", value |-> "c"],
     [key |-> "fone2", value |-> "d"], [key |-> "pron", value |-> "no"],
     [key |-> "pron", value |-> "seseo"], [key |-> "g", value |-> "x"],
     [key |-> "leng", value |-> "es"]}

GrafTemplates ==
    {<<>>} \cup {<<p>> : p \in GrafParams}
    \cup {pq \in {<<p, q>> : p \in GrafParams, q \in GrafParams} :
              pq[1].key # pq[2].key}

\* lines 17-22: the digits before the name of a key, "0" when there are none
InitialDigit(key) == IF key = "2fone" THEN "2" ELSE "0"

\* line 60: key.strip(string.digits)
KeyPlain(key) == IF key \in {"2fone", "fone2"} THEN "fone" ELSE key

\* lines 61-68: the variation a key writes to, by the digits that end it
VariationOf(key) == IF key = "fone2" THEN 2 ELSE 0

\* line 80 (Sound has no attribute tags, models.py lines 78-98) and lines
\* 104-112 (getattr(main_sound, "tags") when there is another variation):
\* the call raises AttributeError
GrafRaises(params) ==
    \E i \in 1..Len(params) :
        \/ VariationOf(params[i].key) # 0
        \/ params[i].key = "pron" /\ params[i].value # "no"

\* lines 71-76
AssignSound(sound, p) ==
    IF KeyPlain(p.key) = "fone" /\ p.value # "..."
    THEN [sound EXCEPT !.ipa = p.value]
    ELSE IF KeyPlain(p.key) = "fono"
    THEN [sound EXCEPT !.phonetic_transcription = p.value]
    ELSE sound

RECURSIVE GroupSound(_, _, _)
\* lines 56-94 for the keys of one group, all of the variation 0
GroupSound(sound, params, initial) ==
    IF params = <<>> THEN sound
    ELSE GroupSound(IF InitialDigit(Head(params).key) = initial
                    THEN AssignSound(sound, Head(params)) ELSE sound,
                    Tail(params), initial)

RECURSIVE GroupOrder(_, _)
\* group_and_subgroup_keys, lines 12-29: the groups in the order of their
\* first key
GroupOrder(params, seen) ==
    IF params = <<>> THEN <<>>
    ELSE IF InitialDigit(Head(params).key) \in seen
    THEN GroupOrder(Tail(params), seen)
    ELSE <<InitialDigit(Head(params).key)>>
         \o GroupOrder(Tail(params),
                       seen \cup {InitialDigit(Head(params).key)})

RECURSIVE SoundData(_, _)
\* lines 113-115
SoundData(params, groups) ==
    IF groups = <<>> THEN <<>>
    ELSE (IF GroupSound(NewSound, params, Head(groups)) # NewSound
          THEN <<GroupSound(NewSound, params, Head(groups))>> ELSE <<>>)
         \o SoundData(params, Tail(groups))

\* lines 50-55, 87-88 and 96-99: the spelling of a key g
SpellingOf(p) == [alternative |-> p.value, same_pronunciation |-> TRUE]

SpellingData(params) ==
    [i \in 1..Len(SelectSeq(params, LAMBDA p : KeyPlain(p.key) = "g")) |->
        SpellingOf(SelectSeq(params, LAMBDA p : KeyPlain(p.key) = "g")[i])]

\* fault injection: the sounds of the template join those of the entry
AttachSounds_extends(word_entry, sound_data) ==
    [word_entry EXCEPT !.sounds = @ \o sound_data]

\* lines 117-118
AttachSounds(word_entry, sound_data) ==
    IF Len(sound_data) > 0 THEN [word_entry EXCEPT !.sounds = sound_data]
    ELSE word_entry

\* lines 119-120
AttachSpellings(word_entry, spelling_data) ==
    IF Len(spelling_data) > 0
    THEN [word_entry EXCEPT !.spellings = spelling_data]
    ELSE word_entry

\* lines 32-120, for a call that does not raise
process_pron_graf_template(word_entry, params) ==
    AttachSpellings(AttachSounds(word_entry,
                                 SoundData(params, GroupOrder(params, {}))),
                    SpellingData(params))

\* share.create_audio_url_dict: the name of the file and the addresses made
\* from it, each written as the name of the file
create_audio_url_dict(audio) == [audio |-> audio, ogg_url |-> audio]

\* lines 130-145; audio is the first parameter, "" when there is none
process_audio_template(word_entry, audio) ==
    IF audio # ""
    THEN [word_entry EXCEPT !.sounds =
             Append(@, [NewSound EXCEPT
                           !.audio = create_audio_url_dict(audio).audio,
                           !.ogg_url = create_audio_url_dict(audio).ogg_url])]
    ELSE word_entry

InitEs ==
    /\ pc = "templates"
    /\ mode = "es"
    /\ aux = [word_entry |-> [sounds |-> <<>>, spellings |-> <<>>],
              before |-> <<>>, prev |-> "none", last |-> "none",
              raised |-> FALSE, n |-> 0]
    /\ InitWalker

EsPronGraf ==
    /\ mode = "es" /\ pc = "templates"
    /\ aux.n < MaxTemplates
    /\ \E params \in GrafTemplates :
           aux' = [word_entry |->
                       IF GrafRaises(params) THEN aux.word_entry
                       ELSE process_pron_graf_template(aux.word_entry, params),
                   before |-> aux.word_entry.sounds,
                   prev |-> aux.last,
                   last |-> "pron-graf",
                   raised |-> GrafRaises(params),
                   n |-> aux.n + 1]
    /\ pc' = IF aux'.raised THEN "raised" ELSE pc
    /\ UNCHANGED <<mode, stack, subsection, base_data, etym_data, pos_data,
                   sense_data, pos_datas, etym_datas, page_datas, have_etym,
                   shared, warned, gta, ret, nhead, log, section_counts>>

EsAudio ==
    /\ mode = "es" /\ pc = "templates"
    /\ aux.n < MaxTemplates
    /\ \E audio \in {"", "a.ogg", "b.ogg"} :
           aux' = [word_entry |-> process_audio_template(aux.word_entry, audio),
                   before |-> aux.word_entry.sounds,
                   prev |-> aux.last,
                   last |-> "audio",
                   raised |-> FALSE,
                   n |-> aux.n + 1]
    /\ UNCHANGED <<pc, mode, stack, subsection, base_data, etym_data,
                   pos_data, sense_data, pos_datas, etym_datas, page_datas,
                   have_etym, shared, warned, gta, ret, nhead, log,
                   section_counts>>

NextEs == EsPronGraf \/ EsAudio

SpecEs == InitEs /\ [][NextEs]_vars

\* C29: whichever of process_pron_graf_template and process_audio_template
\* runs first, the other removes no sound already attached: every sound the
\* entry had before a call is still among its sounds after it
C29_NoSoundRemoved ==
    mode = "es" /\ aux.prev # "none" /\ aux.prev # aux.last =>
        \A i \in 1..Len(aux.before) :
            InSeq(aux.before[i], aux.word_entry.sounds)

\* an audio template and then a pron-graf template with a pronunciation: the
\* sound of the audio file is gone
C29_Witness ==
    /\ mode = "es" /\ aux.prev = "audio" /\ aux.last = "pron-graf"
    /\ ~aux.raised
    /\ aux.before = <<[NewSound EXCEPT !.audio = "a.ogg",
                                       !.ogg_url = "a.ogg"]>>
    /\ aux.word_entry.sounds = <<[NewSound EXCEPT !.ipa = "a"]>>

\* process_audio_template removes no sound, and a pron-graf template that
\* gives no sound leaves the sounds as they are
SoundsKeptByAudio ==
    mode = "es" /\ aux.last = "audio" =>
        /\ \A i \in 1..Len(aux.before) : aux.word_entry.sounds[i] = aux.before[i]
        /\ Len(aux.word_entry.sounds) <= Len(aux.before) + 1

====
